---- MODULE Spec2Model ----
(***************************************************************************)
(* Debate orchestration engine of agent-insurance:                         *)
(*   - DebateSelectionStrategy / ConsensusTerminationStrategy              *)
(*     (backend/orchestration/strategies.py)                               *)
(*   - SupervisorOrchestrator.run_collaboration / resume_collaboration /   *)
(*     _compile_decision (backend/orchestration/supervisor.py)             *)
(*   - run_reasoner / continue_reasoner (backend/reasoner.py)              *)
(*                                                                         *)
(* Specifications:                                                         *)
(*   Spec        one job: a run followed by resumes, one thread            *)
(*   SpecConc    two jobs processed by two server background threads       *)
(*   SpecSel     successive next()/reset() calls on a selection strategy   *)
(*   SpecTerm    should_terminate() called on a growing synthetic ledger   *)
(*   SpecCompile the final-outcome rule applied to drawn extracted data    *)
(*   SpecLedger  a ledger built by add_message, exported and rehydrated    *)
(*   SpecFormat  format_json_response followed by the extraction engine    *)
(*   SpecExtract the extraction engine on texts put together from pieces   *)
(*   SpecEmbedded the embedded-object scan on prose around one object      *)
(*   SpecMerge   _merge_evidence applied once and twice                    *)
(*   SpecCorrupt a resume whose stored ledger snapshot is damaged          *)
(*   SpecContinue continue requests for one paused job (server.py)         *)
(*   SpecTurn    one interpreter turn formatted and read back              *)
(*   SpecStartup _initialize_system called from two threads                *)
(*   SpecRetry   one invoke_nova_pro call and its backend attempts         *)
(*   SpecChunk   the loop of PolicyVectorStore._chunk_document             *)
(***************************************************************************)
EXTENDS Integers, Sequences, FiniteSets, TLC

\* ------------------------------------------------------------------ bounds
\* number of next() calls made on one selection strategy
MaxCalls == 120
\* number of turns of the synthetic ledger handed to should_terminate
MaxLedger == 5
\* number of objections in one review
MaxObjections == 2
MaxTurns == 2
MaxChars == 2
MaxParts == 3
MaxProse == 2
\* number of line items / observations one supplemental object carries
MaxItems == 2
\* number of continue requests accepted for one job
MaxRequests == 3
\* number of _initialize_system calls one thread makes
MaxInitCalls == 2
\* largest max_retries a BedrockClient is built with
MaxRetries == 4
\* number of words of the chunked text
MaxWords == 4
\* largest chunk_size and chunk_overlap a PolicyVectorStore is built with
MaxChunkSize == 3
\* chunks kept; a loop with a positive stride makes at most one per word
MaxChunks == MaxWords + 1
\* ------------------------------------------------------- program constants
\* ConsensusTerminationStrategy(max_rounds=3), SupervisorOrchestrator(max_rounds=3)
DefaultMaxRounds == 3

None == "None"

VARIABLES
    \* --- SpecSel: one DebateSelectionStrategy object and what it returned
    sel_h,          \* [round_number, turns_in_round, turn_count]
    emitted,        \* roles returned by next(), in call order, since construction/reset
    rounds_seen,    \* get_current_round() read after each of those calls
    \* --- SpecTerm: one ConsensusTerminationStrategy object and a synthetic ledger
    term_h,         \* [current_round, max_rounds]
    texts_h,        \* history_texts: the turn texts, oldest first
    last_call,      \* [role, result] of the latest should_terminate call, or NoCall
    rev_calls,      \* calls with last_speaker_role = "reviewer" since construction/reset
    \* --- SpecCompile: extracted data and the outcome compiled from it
    cin,            \* [position, approval, objections]
    cout,           \* outcome, or None before the rule is applied
    \* --- SpecLedger: a ledger built by add_message calls and its round trip
    led,            \* the ConversationHistory L
    restored,       \* from_export(L.export_to_dict()), NoLedger before it is taken
    \* --- SpecFormat / SpecExtract: ResponseFormatter
    fobj,           \* the object O handed to format_json_response
    ftext,          \* the response text, a sequence of characters
    fres,           \* what extract_json_from_response(ftext) did, NotRun before the call
    femb,           \* what _extract_embedded_json(ftext) did, NotRun before the call
    fparts,         \* the number of pieces ftext was put together from
    \* --- SpecMerge: _merge_evidence
    mbase,          \* the base evidence object
    mdelta,         \* the supplemental evidence object (or None)
    mout,           \* _merge_evidence(mbase, mdelta), NotMerged before the call
    mout2,          \* _merge_evidence(mout, mdelta), NotMerged before the call
    \* --- SpecContinue: server.py, one paused job and its continue requests
    cj_resume,      \* job.resume_state: which ResumeState it holds, 0 = None
    cj_status,      \* job.status
    cj_pc,          \* per request: position of its _continue_job background task
    cj_from,        \* per request: the ResumeState handed to continue_reasoner, 0 = none
    \* --- SpecStartup: reasoner.py, the module-level instances (TRUE = not None)
    g_config,       \* _config
    g_bedrock_client, \* _bedrock_client
    g_vector_store, \* _vector_store
    g_supervisor,   \* _supervisor
    ini_pc,         \* per thread: position inside _initialize_system
    ini_calls,      \* per thread: number of calls begun
    ini_seen,       \* per thread: _supervisor is not None, read when the call returned
    \* --- SpecRetry: bedrock_client.py, one invoke_nova_pro call
    rt_max,         \* self.max_retries
    rt_attempt,     \* the loop variable attempt of the iteration about to begin
    rt_log,         \* what each runtime.converse call made so far did, in order
    rt_end,         \* how the call ended: running, returned (val) or raised (exc)
    \* --- SpecChunk: vector_store.py, one _chunk_document call
    ck_words,       \* len(words), the words being words[0] .. words[len - 1]
    ck_size,        \* self.chunk_size
    ck_overlap,     \* self.chunk_overlap
    ck_i,           \* the loop variable i
    ck_chunks,      \* chunks: [start_word, end_word, lo, hi], words[lo..hi-1] its text
    ck_done,        \* the call has returned chunks
    ck_tick,        \* parity of chunk_id, the number of iterations made
    \* --- Spec / SpecConc: the orchestrator
    max_rounds,     \* SupervisorOrchestrator.max_rounds
    heap,           \* per thread: the ConversationHistory object its current call created
    conv,           \* SupervisorOrchestrator.conversation: whose object it refers to, 0 = None
    pc,             \* per thread: position inside run/resume
    sel,            \* per thread: the run's DebateSelectionStrategy
    term,           \* per thread: the run's ConsensusTerminationStrategy counter
    loc,            \* per thread: evidence_result, decision_result, review_result, has_support
    result,         \* per thread: what the latest call returned (or how it ended)
    job             \* per thread: the caller's job record (case id, narrative, resume state)

selVars == <<sel_h, emitted, rounds_seen>>
termVars == <<term_h, texts_h, last_call, rev_calls>>
compVars == <<cin, cout>>
ledVars == <<led, restored>>
fmtVars == <<fobj, ftext, fres, femb, fparts>>
mrgVars == <<mbase, mdelta, mout, mout2>>
contVars == <<cj_resume, cj_status, cj_pc, cj_from>>
iniVars == <<g_config, g_bedrock_client, g_vector_store, g_supervisor,
             ini_pc, ini_calls, ini_seen>>
rtVars == <<rt_max, rt_attempt, rt_log, rt_end>>
ckVars == <<ck_words, ck_size, ck_overlap, ck_i, ck_chunks, ck_done, ck_tick>>
auxVars == <<contVars, iniVars, rtVars, ckVars>>
pureVars == <<ledVars, fmtVars, mrgVars, auxVars>>
orchVars == <<max_rounds, heap, conv, pc, sel, term, loc, result, job>>
vars == <<sel_h, emitted, rounds_seen, term_h, texts_h, last_call, rev_calls,
          cin, cout, led, restored, fobj, ftext, fres, femb, fparts,
          mbase, mdelta, mout, mout2,
          cj_resume, cj_status, cj_pc, cj_from,
          g_config, g_bedrock_client, g_vector_store, g_supervisor,
          ini_pc, ini_calls, ini_seen,
          rt_max, rt_attempt, rt_log, rt_end,
          ck_words, ck_size, ck_overlap, ck_i, ck_chunks, ck_done, ck_tick,
          max_rounds, heap, conv, pc, sel, term, loc, result, job>>

\* =====================================================================
\* strategies.py: DebateSelectionStrategy
\* =====================================================================

\* class attributes turn_count = 0, round_number = 1, turns_in_round = 0; reset()
SelInitial == [round_number |-> 1, turns_in_round |-> 0, turn_count |-> 0]

\* the branch of next() taken in state s: the role returned and the round state
\* before the two trailing increments
SelBranch(s) ==
    IF s.round_number = 1
    THEN CASE s.turns_in_round = 0 ->
                [role |-> "curator", rn |-> s.round_number, tir |-> s.turns_in_round]
           [] s.turns_in_round = 1 ->
                [role |-> "interpreter", rn |-> s.round_number, tir |-> s.turns_in_round]
           [] s.turns_in_round = 2 ->
                [role |-> "reviewer", rn |-> s.round_number, tir |-> s.turns_in_round]
           [] OTHER ->
                [role |-> "reviewer", rn |-> 2, tir |-> 0]
    ELSE CASE s.turns_in_round = 0 ->
                [role |-> "curator", rn |-> s.round_number, tir |-> s.turns_in_round]
           [] s.turns_in_round = 1 ->
                [role |-> "interpreter", rn |-> s.round_number, tir |-> s.turns_in_round]
           [] s.turns_in_round = 2 ->
                [role |-> "reviewer", rn |-> s.round_number, tir |-> s.turns_in_round]
           [] OTHER ->
                [role |-> "curator", rn |-> s.round_number + 1, tir |-> 0]

\* next(): [role |-> the role returned, st |-> the strategy state afterwards]
SelNext(s) ==
    LET b == SelBranch(s)
    IN  [role |-> b.role,
         st   |-> [round_number   |-> b.rn,
                   turns_in_round |-> b.tir + 1,
                   turn_count     |-> s.turn_count + 1]]

\* get_current_round()
SelCurrentRound(s) == s.round_number

\* the roles the first n next() calls return from state s
RECURSIVE SelTrace(_, _)
SelTrace(s, n) ==
    IF n = 0 THEN <<>>
    ELSE <<SelNext(s).role>> \o SelTrace(SelNext(s).st, n - 1)

\* --- SpecSel harness
SelCall ==
    /\ Len(emitted) < MaxCalls
    /\ sel_h' = SelNext(sel_h).st
    /\ emitted' = Append(emitted, SelNext(sel_h).role)
    /\ rounds_seen' = Append(rounds_seen, SelCurrentRound(SelNext(sel_h).st))
    /\ UNCHANGED <<termVars, compVars, pureVars, orchVars>>

SelReset ==
    /\ Len(emitted) > 0
    /\ sel_h' = SelInitial
    /\ emitted' = <<>>
    /\ rounds_seen' = <<>>
    /\ UNCHANGED <<termVars, compVars, pureVars, orchVars>>

\* =====================================================================
\* strategies.py: ConsensusTerminationStrategy
\* =====================================================================

\* A turn text is the set of phrases occurring in it, each in the letter case
\* in which it occurs.  `ind in content.lower()` is: some phrase of the text
\* lower-cases to ind.
ApprovalIndicators ==
    {"\"approval\": true", "approval is granted", "i approve",
     "decision is approved", "no blocking objections"}

ErrorIndicators ==
    {"critical error", "unable to process", "processing failed",
     "fatal error", "cannot continue"}

\* str.lower() on the phrases that occur in the model
Lower(p) ==
    CASE p = "I APPROVE" -> "i approve"
      [] p = "I approve" -> "i approve"
      [] p = "No Blocking Objections" -> "no blocking objections"
      [] p = "Approval Is Granted" -> "approval is granted"
      [] p = "Critical Error" -> "critical error"
      [] p = "Processing failed" -> "processing failed"
      [] p = "Unable to process" -> "unable to process"
      [] p = "FATAL ERROR" -> "fatal error"
      [] p = "Blocking" -> "blocking"
      [] p = "BLOCKING" -> "blocking"
      [] p = "Resolved" -> "resolved"
      [] OTHER -> p

\* any(ind in content for ind in indicators), content = text.lower()
ContainsAny(text, indicators) == \E p \in text : Lower(p) \in indicators

\* variant of the counter without the reviewer increment (sensitivity of C9)
RoundCounterFrozen(cr, last_speaker_role) == cr

\* lines 95-96: the counter after the reviewer increment
RoundCounterAfter(cr, last_speaker_role) ==
    IF last_speaker_role = "reviewer" THEN cr + 1 ELSE cr

\* variant of the approval check that compares without lower() (sensitivity of C10)
ApprovalCheckCaseSensitive(last_speaker_role, history_texts) ==
    /\ last_speaker_role = "reviewer"
    /\ history_texts # <<>>
    /\ history_texts[Len(history_texts)] \cap ApprovalIndicators # {}

\* lines 102-113: the reviewer approval check
ApprovalCheck(last_speaker_role, history_texts) ==
    /\ last_speaker_role = "reviewer"
    /\ history_texts # <<>>
    /\ ContainsAny(history_texts[Len(history_texts)], ApprovalIndicators)

\* variant of the scan window that takes the whole history (sensitivity of C11)
RecentWhole(history_texts) == history_texts

\* line 123: history_texts[-3:] if len >= 3 else history_texts
Recent(history_texts) ==
    IF Len(history_texts) >= 3
    THEN SubSeq(history_texts, Len(history_texts) - 2, Len(history_texts))
    ELSE history_texts

\* lines 115-127: the critical-error scan
ErrorCheck(history_texts) ==
    \E i \in 1..Len(Recent(history_texts)) :
        ContainsAny(Recent(history_texts)[i], ErrorIndicators)

\* should_terminate(): [result |-> the boolean returned, cr |-> current_round afterwards]
ShouldTerminate(cr, maxr, last_speaker_role, history_texts) ==
    LET cr2 == RoundCounterAfter(cr, last_speaker_role)
    IN  [cr     |-> cr2,
         result |-> \/ cr2 > maxr
                    \/ ApprovalCheck(last_speaker_role, history_texts)
                    \/ ErrorCheck(history_texts)]

\* --- SpecTerm harness: a turn is appended to the synthetic ledger and
\* should_terminate is called for it, as the orchestrator's loop does
\* no should_terminate call made since construction or reset()
NoCall == [role |-> "none", result |-> FALSE]

HarnessRoles == {"curator", "interpreter", "reviewer"}
HarnessTexts == {{}, {"I APPROVE"}, {"Critical Error"}}

TermCall(role, text) ==
    /\ Len(texts_h) < MaxLedger
    /\ LET hist == Append(texts_h, text)
           r    == ShouldTerminate(term_h.current_round, term_h.max_rounds, role, hist)
       IN  /\ texts_h' = hist
           /\ term_h' = [term_h EXCEPT !.current_round = r.cr]
           /\ last_call' = [role |-> role, result |-> r.result]
           /\ rev_calls' = IF role = "reviewer" THEN rev_calls + 1 ELSE rev_calls
    /\ UNCHANGED <<selVars, compVars, pureVars, orchVars>>

\* reset()
TermReset ==
    /\ last_call # NoCall
    /\ term_h' = [term_h EXCEPT !.current_round = 1]
    /\ texts_h' = texts_h
    /\ last_call' = NoCall
    /\ rev_calls' = 0
    /\ UNCHANGED <<selVars, compVars, pureVars, orchVars>>

\* =====================================================================
\* supervisor.py: _compile_decision, the final-outcome rule
\* =====================================================================

\* lines 273-276: obj.get("status", "").lower() == "blocking"
IsBlocking(obj) == Lower(obj.status) = "blocking"

BlockingObjections(objections) ==
    {i \in 1..Len(objections) : IsBlocking(objections[i])}

\* variant of the rule in which approval alone decides (sensitivity of C2)
FinalOutcomeApprovalFirst(interpreter_outcome, reviewer_approval, objections) ==
    IF reviewer_approval THEN interpreter_outcome
    ELSE IF BlockingObjections(objections) # {}
         THEN "Pending Investigation"
         ELSE "Pending Review"

\* lines 282-298: final_outcome from the interpreter's position, the reviewer's
\* approval and the reviewer's objections
FinalOutcome(interpreter_outcome, reviewer_approval, objections) ==
    IF reviewer_approval /\ BlockingObjections(objections) = {}
    THEN interpreter_outcome
    ELSE IF BlockingObjections(objections) # {}
         THEN "Pending Investigation"
         ELSE "Pending Review"

\* --- SpecCompile harness: extracted decision and review data are drawn, the
\* rule is applied once
Positions == {"Pay", "Partial", "Deny"}
ExtractedStatuses == {"Blocking", "BLOCKING", "Resolved", ""}

Objection(type, status, message) ==
    [type |-> type, status |-> status, message |-> message]

RECURSIVE SeqsUpTo(_, _)
SeqsUpTo(S, n) ==
    IF n = 0 THEN {<<>>}
    ELSE SeqsUpTo(S, n - 1) \cup
         {Append(q, x) : q \in {r \in SeqsUpTo(S, n - 1) : Len(r) = n - 1}, x \in S}

CompileApply ==
    /\ cout = None
    /\ cout' = FinalOutcome(cin.position, cin.approval, cin.objections)
    /\ UNCHANGED <<cin, selVars, termVars, pureVars, orchVars>>

\* =====================================================================
\* response_formatter.py: ResponseFormatter
\* =====================================================================

\* A text is a sequence of characters.  The characters that matter are kept
\* apart: "{" "}" ":" "," the double quote "q", the backslash "b", the letter n
\* "ln", the newline "n" (the one whitespace character), and "x" for any other
\* character.  Four longer pieces of text are written as one character each:
\* "S" and "E" are the two delimiters, "F" is a ``` fence, "J" is ```json, and
\* "D" is a run of opening brackets deeper than the interpreter's recursion
\* limit.

\* JSON values: strings and objects (dicts of string keys), all of one shape
JStr(chars) == [t |-> "str", chars |-> chars, members |-> <<>>]
JObj(members) == [t |-> "obj", chars |-> <<>>, members |-> members]
JMember(key, value) == [key |-> key, value |-> value]
NoValue == [t |-> "none", chars |-> <<>>, members |-> <<>>]

\* variant of the string escaping that leaves the double quote as it is
\* (sensitivity of C13)
EscapeCharPlainQuote(c) ==
    CASE c = "b" -> <<"b", "b">>
      [] c = "n" -> <<"b", "ln">>
      [] OTHER -> <<c>>

\* json.dumps on one character of a string
EscapeChar(c) ==
    CASE c = "q" -> <<"b", "q">>
      [] c = "b" -> <<"b", "b">>
      [] c = "n" -> <<"b", "ln">>
      [] OTHER -> <<c>>

RECURSIVE EscapeString(_)
EscapeString(chars) ==
    IF chars = <<>> THEN <<>>
    ELSE EscapeChar(Head(chars)) \o EscapeString(Tail(chars))

DumpString(chars) == <<"q">> \o EscapeString(chars) \o <<"q">>

\* json.dumps(data, indent=2, ensure_ascii=False): a newline before each member
\* and before the closing brace, "{}" for the empty dict
RECURSIVE Dumps(_)
RECURSIVE DumpMembers(_)
DumpMembers(members) ==
    IF members = <<>> THEN <<>>
    ELSE <<"n">> \o DumpString(Head(members).key) \o <<":">>
         \o Dumps(Head(members).value)
         \o (IF Len(members) > 1 THEN <<",">> ELSE <<>>)
         \o DumpMembers(Tail(members))

Dumps(v) ==
    IF v.t = "str" THEN DumpString(v.chars)
    ELSE IF v.members = <<>> THEN <<"{", "}">>
    ELSE <<"{">> \o DumpMembers(v.members) \o <<"n", "}">>

\* the JSON decoder: [err |-> "none" | "decode" | "recursion", val, pos |-> the
\* index after the value]
Decoded(val, pos) == [err |-> "none", val |-> val, pos |-> pos]
DecodeFailure(err) == [err |-> err, val |-> NoValue, pos |-> 0]

RECURSIVE SkipWs(_, _)
SkipWs(s, i) == IF i <= Len(s) /\ s[i] = "n" THEN SkipWs(s, i + 1) ELSE i

\* the body of a string literal from index j on, acc = the characters read
RECURSIVE ScanString(_, _, _)
ScanString(s, j, acc) ==
    IF j > Len(s) THEN DecodeFailure("decode")
    ELSE IF s[j] = "q" THEN Decoded(JStr(acc), j + 1)
    ELSE IF s[j] = "n" THEN DecodeFailure("decode")
    ELSE IF s[j] = "b"
         THEN IF j + 1 > Len(s) THEN DecodeFailure("decode")
              ELSE IF s[j + 1] \in {"q", "b"}
                   THEN ScanString(s, j + 2, Append(acc, s[j + 1]))
              ELSE IF s[j + 1] = "ln"
                   THEN ScanString(s, j + 2, Append(acc, "n"))
              ELSE DecodeFailure("decode")
    ELSE ScanString(s, j + 1, Append(acc, s[j]))

RECURSIVE ParseValue(_, _)
RECURSIVE ParseMembers(_, _, _)
\* the members of an object from index j on (a key is expected at j)
ParseMembers(s, j, acc) ==
    IF j > Len(s) \/ s[j] # "q" THEN DecodeFailure("decode")
    ELSE LET k == ScanString(s, j + 1, <<>>)
         IN  IF k.err # "none" THEN k
             ELSE LET c == SkipWs(s, k.pos)
                  IN  IF c > Len(s) \/ s[c] # ":" THEN DecodeFailure("decode")
                      ELSE LET v == ParseValue(s, c + 1)
                           IN  IF v.err # "none" THEN v
                               ELSE LET e    == SkipWs(s, v.pos)
                                        acc2 == Append(acc, JMember(k.val.chars, v.val))
                                    IN  IF e > Len(s) THEN DecodeFailure("decode")
                                        ELSE IF s[e] = "}" THEN Decoded(JObj(acc2), e + 1)
                                        ELSE IF s[e] = ","
                                             THEN ParseMembers(s, SkipWs(s, e + 1), acc2)
                                        ELSE DecodeFailure("decode")

ParseValue(s, i) ==
    LET j == SkipWs(s, i)
    IN  IF j > Len(s) THEN DecodeFailure("decode")
        ELSE IF s[j] = "q" THEN ScanString(s, j + 1, <<>>)
        ELSE IF s[j] = "D" THEN DecodeFailure("recursion")
        ELSE IF s[j] = "{"
             THEN LET m == SkipWs(s, j + 1)
                  IN  IF m <= Len(s) /\ s[m] = "}" THEN Decoded(JObj(<<>>), m + 1)
                      ELSE ParseMembers(s, m, <<>>)
        ELSE DecodeFailure("decode")

\* json.loads(text): the whole text must be one value
Loads(s) ==
    LET v == ParseValue(s, 1)
    IN  IF v.err # "none" THEN v
        ELSE IF SkipWs(s, v.pos) > Len(s) THEN v
        ELSE DecodeFailure("decode")

\* what an extraction method did: kind "found" (val returned), "none" (None
\* returned), "raised" (an exception left the method); by = the method
Found(val, by) == [kind |-> "found", val |-> val, by |-> by]
NotFound == [kind |-> "none", val |-> NoValue, by |-> ""]
RaisedOut(by) == [kind |-> "raised", val |-> NoValue, by |-> by]
NotRun == [kind |-> "notrun", val |-> NoValue, by |-> ""]

\* str.strip()
RECURSIVE RStrip(_)
RStrip(s) ==
    IF s # <<>> /\ s[Len(s)] = "n" THEN RStrip(SubSeq(s, 1, Len(s) - 1)) ELSE s

Strip(s) == RStrip(SubSeq(s, SkipWs(s, 1), Len(s)))

\* str.find(): the first index at or after from where a character of set
\* stands, 0 when there is none
FindFrom(s, set, from) ==
    IF \E i \in from..Len(s) : s[i] \in set
    THEN CHOOSE i \in from..Len(s) :
             s[i] \in set /\ \A k \in from..(i - 1) : s[k] \notin set
    ELSE 0

\* _extract_delimited_json(): the handler catches JSONDecodeError and ValueError
ExtractDelimited(text) ==
    LET start_idx == FindFrom(text, {"S"}, 1)
        end_idx   == FindFrom(text, {"E"}, 1)
    IN  IF start_idx = 0 \/ end_idx = 0 THEN NotFound
        ELSE LET r == Loads(Strip(SubSeq(text, start_idx + 1, end_idx - 1)))
             IN  CASE r.err = "none" -> Found(r.val, "delimited")
                   [] r.err = "decode" -> NotFound
                   [] OTHER -> RaisedOut("delimited")

\* re.search of one fence pattern: the opening fence, whitespace up to a
\* newline, the shortest group, a newline and a fence.
\* [matched, group |-> match.group(1)]
FenceSearch(text, opener) ==
    LET opens == {i \in 1..Len(text) :
                     text[i] = opener /\ i < Len(text) /\ text[i + 1] = "n"}
    IN  IF opens = {} THEN [matched |-> FALSE, group |-> <<>>]
        ELSE LET i      == CHOOSE m \in opens : \A k \in opens : m <= k
                 from   == SkipWs(text, i + 1)
                 closes == {j \in from..(Len(text) - 1) :
                               text[j] = "n" /\ text[j + 1] \in {"F", "J"}}
             IN  IF closes = {} THEN [matched |-> FALSE, group |-> <<>>]
                 ELSE LET j == CHOOSE m \in closes : \A k \in closes : m <= k
                      IN  [matched |-> TRUE, group |-> SubSeq(text, from, j - 1)]

\* _extract_markdown_json(): the ```json pattern, then the bare pattern; a
\* JSONDecodeError moves on to the next pattern, any other exception makes
\* the method return None
ExtractMarkdown(text) ==
    LET m1 == FenceSearch(text, "J")
        r1 == Loads(Strip(m1.group))
        m2 == FenceSearch(text, "F")
        r2 == Loads(Strip(m2.group))
    IN  IF m1.matched /\ r1.err = "none" THEN Found(r1.val, "markdown")
        ELSE IF m1.matched /\ r1.err = "recursion" THEN NotFound
        ELSE IF m2.matched /\ r2.err = "none" THEN Found(r2.val, "markdown")
        ELSE NotFound

\* _extract_raw_json(): the handler catches JSONDecodeError only
ExtractRaw(text) ==
    LET r == Loads(text)
    IN  CASE r.err = "none" -> Found(r.val, "raw")
          [] r.err = "decode" -> NotFound
          [] OTHER -> RaisedOut("raw")

\* _extract_embedded_json(): the loop of lines 208-235 from index i on, the
\* scan having started at start_idx.  0 = the loop ends without a balanced
\* span, otherwise the index of the closing brace of the span
RECURSIVE BraceScan(_, _, _, _)
BraceScan(text, i, brace_count, in_string) ==
    IF i > Len(text) THEN 0
    ELSE IF text[i] = "b" THEN BraceScan(text, i + 2, brace_count, in_string)
    ELSE IF text[i] = "q" THEN BraceScan(text, i + 1, brace_count, ~in_string)
    ELSE IF ~in_string /\ text[i] = "{"
         THEN BraceScan(text, i + 1, brace_count + 1, in_string)
    ELSE IF ~in_string /\ text[i] = "}"
         THEN IF brace_count - 1 = 0 THEN i
              ELSE BraceScan(text, i + 1, brace_count - 1, in_string)
    ELSE BraceScan(text, i + 1, brace_count, in_string)

\* _extract_embedded_json(): a span that fails to decode sends the scan to the
\* text after it; any other exception makes the method return None
RECURSIVE ExtractEmbedded(_)
ExtractEmbedded(text) ==
    LET start_idx == FindFrom(text, {"{"}, 1)
    IN  IF start_idx = 0 THEN NotFound
        ELSE LET i == BraceScan(text, start_idx, 0, FALSE)
             IN  IF i = 0 THEN NotFound
                 ELSE LET r == Loads(SubSeq(text, start_idx, i))
                      IN  CASE r.err = "none" -> Found(r.val, "embedded")
                            [] r.err = "decode" ->
                                 ExtractEmbedded(SubSeq(text, i + 1, Len(text)))
                            [] OTHER -> NotFound

\* extract_json_from_response()
ExtractJsonFromResponse(response_text) ==
    LET text == Strip(response_text)
        d == ExtractDelimited(text)
        m == ExtractMarkdown(text)
        r == ExtractRaw(text)
        e == ExtractEmbedded(text)
    IN  IF text = <<>> THEN NotFound
        ELSE IF d.kind # "none" THEN d
        ELSE IF m.kind # "none" THEN m
        ELSE IF r.kind # "none" THEN r
        ELSE e

\* format_json_response(data) for a dict
FormatJsonResponse(data) == <<"S", "n">> \o Dumps(data) \o <<"n", "E">>

\* --- harnesses of the formatter
FmtIdle ==
    /\ fobj = NoValue
    /\ ftext = <<>>
    /\ fres = NotRun
    /\ femb = NotRun
    /\ fparts = 0

\* the characters of the keys and string values of O
FmtChars == {"x", "{", "}", "q", "b", "n", "S", "E", "F"}

\* the objects O: empty, one string member, a nested object beside a string
FmtObjects ==
    {JObj(<<>>)}
    \cup {JObj(<<JMember(k, JStr(v))>>) :
             k \in SeqsUpTo(FmtChars, 1), v \in SeqsUpTo(FmtChars, MaxChars)}
    \cup {JObj(<<JMember(<<"x">>, JObj(<<JMember(k, JStr(v))>>)),
                 JMember(<<"q">>, JStr(v))>>) :
             k \in SeqsUpTo(FmtChars, 1), v \in SeqsUpTo(FmtChars, 1)}

\* SpecFormat: format_json_response(O)
FmtFormat ==
    /\ fobj.t = "obj"
    /\ ftext = <<>>
    /\ ftext' = FormatJsonResponse(fobj)
    /\ fparts' = 1
    /\ UNCHANGED <<fobj, fres, femb, ledVars, mrgVars, selVars, termVars, compVars, orchVars, auxVars>>

\* extract_json_from_response(ftext), and _extract_embedded_json(ftext) alone
FmtExtract ==
    /\ ftext # <<>>
    /\ fres = NotRun
    /\ fres' = ExtractJsonFromResponse(ftext)
    /\ femb' = ExtractEmbedded(ftext)
    /\ UNCHANGED <<fobj, ftext, fparts, ledVars, mrgVars, selVars, termVars, compVars, orchVars, auxVars>>

\* SpecExtract: the pieces a response text is put together from
ObjA == <<"{", "q", "x", "q", ":", "q", "x", "q", "}">>
ObjB == <<"{", "}">>
BrokenSpan == <<"{", "x", "}">>
DelimitedBlock(body) == <<"S", "n">> \o body \o <<"n", "E">>
FencedBlock(opener, body) == <<opener, "n">> \o body \o <<"n", "F">>

TextPieces ==
    {<<"x">>, <<"n">>, <<"{">>, <<"}">>, <<"S">>, <<"E">>, <<"D">>,
     ObjA, ObjB, BrokenSpan,
     DelimitedBlock(ObjA), DelimitedBlock(BrokenSpan), DelimitedBlock(<<"D">>),
     FencedBlock("J", ObjB), FencedBlock("J", BrokenSpan), FencedBlock("J", <<"D">>),
     FencedBlock("F", ObjA)}

TextAppend(piece) ==
    /\ fres = NotRun
    /\ fparts < MaxParts
    /\ ftext' = ftext \o piece
    /\ fparts' = fparts + 1
    /\ UNCHANGED <<fobj, fres, femb, ledVars, mrgVars, selVars, termVars, compVars, orchVars, auxVars>>

\* SpecEmbedded: one valid object O with prose before and after it
ProseChars == {"x", "{", "}", "q", "b", "n"}

\* prose holds no valid JSON object of its own
IsProse(p) ==
    \A i \in 1..Len(p) : \A j \in i..Len(p) :
        LET r == Loads(SubSeq(p, i, j))
        IN  ~(r.err = "none" /\ r.val.t = "obj")

Prose == {p \in SeqsUpTo(ProseChars, MaxProse) : IsProse(p)}

EmbObjects ==
    {JObj(<<JMember(<<"x">>, JStr(v))>>) :
        v \in {<<>>, <<"q">>, <<"{">>, <<"}">>, <<"q", "}">>, <<"b", "q">>}}

EmbWrap(pre, post) ==
    /\ fobj.t = "obj"
    /\ ftext = <<>>
    /\ ftext' = pre \o Dumps(fobj) \o post
    /\ fparts' = 3
    /\ UNCHANGED <<fobj, fres, femb, ledVars, mrgVars, selVars, termVars, compVars, orchVars, auxVars>>

\* =====================================================================
\* supervisor.py: _merge_evidence on evidence objects
\* =====================================================================
\* A dict is a function from its keys; a key the dict lacks is outside its
\* DOMAIN. A list is a sequence; a text is a sequence of characters in which
\* "n" is the whitespace character.

\* {}
EmptyDict == [k \in {} |-> 0]

\* the value None where a dict is expected
PyNone == [py_none |-> TRUE]

\* truth value of a dict-or-None: None and {} are falsy
Truthy(d) == DOMAIN d # {} /\ DOMAIN d # {"py_none"}

\* `x or {}`
OrEmpty(d) == IF Truthy(d) THEN d ELSE EmptyDict

\* d.get(k, default)
Get(d, k, default) == IF k \in DOMAIN d THEN d[k] ELSE default

\* d[k] = v
Put(d, k, v) == (k :> v) @@ d

\* line 360: images_map, image name -> position in base["evidence"]; a later
\* entry of the same name replaces an earlier one
RECURSIVE ImagesMap(_, _)
ImagesMap(entries, n) ==
    IF n = 0 THEN EmptyDict
    ELSE Put(ImagesMap(entries, n - 1), Get(entries[n], "image_name", ""), n)

\* lines 369-371: a non-empty global_assessment / chronology of the new entry
\* replaces the existing one
RECURSIVE CopyTruthyFields(_, _, _)
CopyTruthyFields(existing, entry, fields) ==
    IF fields = <<>> THEN existing
    ELSE LET field == Head(fields)
             next  == IF Get(entry, field, <<>>) # <<>>
                      THEN Put(existing, field, entry[field]) ELSE existing
         IN  CopyTruthyFields(next, entry, Tail(fields))

\* lines 366-371: the entry of an image already known
MergeEntry(existing, entry) ==
    LET observations == Get(existing, "observations", <<>>)
                            \o Get(entry, "observations", <<>>)
    IN  CopyTruthyFields(Put(existing, "observations", observations), entry,
                         <<"global_assessment", "chronology">>)

\* lines 361-374: the loop over delta["evidence"]
RECURSIVE MergeEntries(_, _, _, _)
MergeEntries(base, images_map, entries, i) ==
    IF i > Len(entries) THEN base
    ELSE LET entry == entries[i]
             key   == Get(entry, "image_name", "")
         IN  IF key = "" THEN MergeEntries(base, images_map, entries, i + 1)
             ELSE IF key \in DOMAIN images_map
             THEN LET at == images_map[key]
                      list == [base["evidence"] EXCEPT
                                 ![at] = MergeEntry(base["evidence"][at], entry)]
                  IN  MergeEntries(Put(base, "evidence", list), images_map,
                                   entries, i + 1)
             ELSE LET list == Append(Get(base, "evidence", <<>>), entry)
                  IN  MergeEntries(Put(base, "evidence", list),
                                   Put(images_map, key, Len(list)), entries, i + 1)

\* variant that replaces the line items by the new ones (sensitivity of C17)
ExtendLineItemsReplacing(line_items, more) == more

\* line 386: base_expense["line_items"].extend(...)
ExtendLineItems(line_items, more) == line_items \o more

\* lines 387-389: a scalar field is taken from delta only when base lacks it
RECURSIVE FillMissing(_, _, _)
FillMissing(base_expense, delta_expense, keys) ==
    IF keys = <<>> THEN base_expense
    ELSE LET key == Head(keys)
             next == IF key \notin DOMAIN base_expense /\ key \in DOMAIN delta_expense
                     THEN Put(base_expense, key, delta_expense[key])
                     ELSE base_expense
         IN  FillMissing(next, delta_expense, Tail(keys))

Max(a, b) == IF a >= b THEN a ELSE b

\* lines 376-389
MergeExpense(base_expense, delta_expense) ==
    IF ~Truthy(delta_expense) THEN base_expense
    ELSE LET with_total ==
                 IF "total" \in DOMAIN delta_expense
                 THEN Put(base_expense, "total",
                          Max(Get(base_expense, "total", 0), delta_expense["total"]))
                 ELSE base_expense
             with_items ==
                 Put(with_total, "line_items",
                     ExtendLineItems(Get(with_total, "line_items", <<>>),
                                     Get(delta_expense, "line_items", <<>>)))
         IN  FillMissing(with_items, delta_expense,
                 <<"vendor", "invoice_number", "invoice_date", "currency",
                   "subtotal", "tax">>)

\* lines 391-394
MergeSummary(base, delta) ==
    IF Get(delta, "fnol_summary", <<>>) # <<>>
    THEN Put(base, "fnol_summary",
             Strip(Get(base, "fnol_summary", <<>>) \o <<"n", "n">>
                   \o delta["fnol_summary"]))
    ELSE base

\* lines 396-400
RECURSIVE MergeMetadata(_, _, _)
MergeMetadata(base_meta, delta_meta, keys) ==
    IF keys = <<>> THEN base_meta
    ELSE LET key == Head(keys)
         IN  MergeMetadata(Put(base_meta, key, Get(base_meta, key, <<>>)
                                                 \o Get(delta_meta, key, <<>>)),
                           delta_meta, Tail(keys))

\* _merge_evidence(base, delta)
MergeEvidence(base0, delta0) ==
    IF ~Truthy(base0) THEN OrEmpty(delta0)
    ELSE LET delta == OrEmpty(delta0)
             entries == Get(base0, "evidence", <<>>)
             merged == MergeEntries(base0, ImagesMap(entries, Len(entries)),
                                    Get(delta, "evidence", <<>>), 1)
             with_expense ==
                 Put(merged, "expense",
                     MergeExpense(Get(merged, "expense", EmptyDict),
                                  Get(delta, "expense", EmptyDict)))
             with_summary == MergeSummary(with_expense, delta)
         IN  Put(with_summary, "metadata",
                 MergeMetadata(Get(with_summary, "metadata", EmptyDict),
                               Get(delta, "metadata", EmptyDict),
                               <<"processing_notes", "plugin_errors",
                                 "image_timestamps">>))

\* --- SpecMerge harness: one base, one delta, the delta merged once and then
\* merged again into the result
NotMerged == [not_merged |-> TRUE]

MrgIdle ==
    /\ mbase = EmptyDict
    /\ mdelta = EmptyDict
    /\ mout = NotMerged
    /\ mout2 = NotMerged

\* the lists 1..n of items named by prefix
Items(tag, n) == [i \in 1..n |-> <<tag, i>>]

ImageEntry(name, n) == [image_name |-> name, observations |-> Items("o", n)]

\* parts an evidence object is put together from: each key absent or present
EvidenceParts ==
    {EmptyDict,
     [evidence |-> <<>>],
     [evidence |-> <<ImageEntry("a.jpg", 1)>>],
     [evidence |-> <<[image_name |-> "a.jpg"]>>]}

ExpenseParts ==
    {EmptyDict,
     [expense |-> EmptyDict],
     [expense |-> [total |-> 1]],
     [expense |-> [vendor |-> "Acme", currency |-> "USD", total |-> 2,
                   line_items |-> Items("li", 1)]]}

SummaryParts == {EmptyDict, [fnol_summary |-> <<>>], [fnol_summary |-> <<"x">>]}

\* curator._empty_evidence_structure() carries processing_notes only,
\* curator.invoke() all three lists
MetadataParts ==
    {EmptyDict,
     [metadata |-> EmptyDict],
     [metadata |-> [processing_notes |-> <<"Failed to extract evidence">>]],
     [metadata |-> [processing_notes |-> <<>>, plugin_errors |-> <<>>,
                    image_timestamps |-> <<>>]]}

MergeBases ==
    {ev @@ ex @@ fs @@ md : ev \in EvidenceParts, ex \in ExpenseParts,
                            fs \in SummaryParts, md \in MetadataParts}

MergeDeltas ==
    {PyNone, EmptyDict}
    \cup {[evidence |-> <<ImageEntry(name, n)>>] :
              name \in {"a.jpg", "b.jpg", ""}, n \in 1..MaxItems}
    \cup {[evidence |-> <<ImageEntry("b.jpg", 1),
                          [image_name |-> "b.jpg", observations |-> Items("p", 1),
                           global_assessment |-> <<"x">>]>>]}
    \cup {[expense |-> [line_items |-> Items("lj", n)] @@ sc] :
              n \in 0..MaxItems,
              sc \in {EmptyDict, [vendor |-> "Bolt", currency |-> "EUR", total |-> 3]}}
    \cup {[fnol_summary |-> <<"x", "n">>],
          [metadata |-> [processing_notes |-> <<"note">>]]}

Merged(m) == DOMAIN m # {"not_merged"}

MrgMerge ==
    /\ ~Merged(mout)
    /\ mout' = MergeEvidence(mbase, mdelta)
    /\ UNCHANGED <<mbase, mdelta, mout2, ledVars, fmtVars, selVars, termVars,
                   compVars, orchVars, auxVars>>

MrgAgain ==
    /\ Merged(mout)
    /\ ~Merged(mout2)
    /\ mout2' = MergeEvidence(mout, mdelta)
    /\ UNCHANGED <<mbase, mdelta, mout, ledVars, fmtVars, selVars, termVars,
                   compVars, orchVars, auxVars>>

\* =====================================================================
\* supervisor.py / reasoner.py / conversation.py: the orchestrator
\* =====================================================================

Threads == {1, 2}

\* --- structured role results (dicts), all of one shape
NoData ==
    [kind |-> "none", failed |-> FALSE, position |-> "", approval |-> FALSE,
     objections |-> <<>>, data |-> EmptyDict]

\* curator._empty_expense()
EmptyExpense ==
    [vendor |-> "Unknown", invoice_number |-> "N/A", invoice_date |-> "",
     currency |-> "USD", subtotal |-> 0, tax |-> 0, total |-> 0, line_items |-> <<>>]

\* the dict curator.invoke() returns: lines 224-233 filled with the analysed
\* images, or (failed) _empty_evidence_structure() with the note of line 261
CuratorData(failed, images) ==
    IF failed
    THEN [evidence |-> <<>>, expense |-> EmptyExpense, fnol_summary |-> <<>>,
          metadata |-> [processing_notes |->
                           <<"Failed to extract evidence", "Processing failed">>]]
    ELSE [evidence |-> images, expense |-> EmptyDict, fnol_summary |-> <<>>,
          metadata |-> [processing_notes |-> <<>>, plugin_errors |-> <<>>,
                        image_timestamps |-> <<>>]]

\* curator.invoke(): the evidence structure; failed = the except branch of
\* invoke() ran and added the note "Processing failed: ..."
Evidence(failed, images) ==
    [NoData EXCEPT !.kind = "evidence", !.failed = failed,
                   !.data = CuratorData(failed, images)]

\* the photos of the claim as analysed by the run, and what the analysis of
\* one supplemental photo can bring: the same image name or a new one
RunImages == <<ImageEntry("a.jpg", 1)>>
SupplementalImages ==
    {<<ImageEntry(name, n)>> : name \in {"a.jpg", "b.jpg"}, n \in {1}}

\* interpreter.invoke() / revise_decision(): a validated decision
Decision(position) == [NoData EXCEPT !.kind = "decision", !.position = position]

Review(approval, objections) ==
    [NoData EXCEPT !.kind = "review", !.approval = approval, !.objections = objections]

\* interpreter._default_decision()
DefaultDecision == Decision("Deny")

\* reviewer._default_review()
DefaultReview ==
    Review(FALSE, <<Objection("Processing Error", "Blocking",
                              "Unable to complete compliance review due to processing error")>>)

\* reviewer._validate_and_complete_review(): raw_approval is "true", "false" or
\* "absent"; raw_statuses are the statuses of the objections of the reply
ValidStatus(status) == IF status \in {"Blocking", "Resolved"} THEN status ELSE "Blocking"

ValidateAndCompleteReview(raw_approval, raw_statuses) ==
    LET approval0 ==
            IF raw_approval = "absent"
            THEN \A i \in 1..Len(raw_statuses) : raw_statuses[i] # "Blocking"
            ELSE raw_approval = "true"
        validated ==
            [i \in 1..Len(raw_statuses) |->
                Objection("Objection", ValidStatus(raw_statuses[i]), "m")]
        blocking_count ==
            Cardinality({i \in 1..Len(validated) : validated[i].status = "Blocking"})
        approval ==
            IF blocking_count > 0 /\ approval0 THEN FALSE
            ELSE IF blocking_count = 0 /\ ~approval0 THEN TRUE
            ELSE approval0
    IN  Review(approval, validated)

\* what the reasoning backend can make a role call produce
RawApprovals == {"true", "false", "absent"}
RawStatuses == {"Blocking", "Resolved", "Unresolved"}
ExcKinds == {"ClaimsProcessingError", "Exception"}
NoExc == "none"

\* the reply of the reasoning backend to the reviewer: parsed = an object is
\* recovered from it; approval / statuses as that object carries them
NoReply == [parsed |-> FALSE, approval |-> "absent", statuses |-> <<>>]

ReviewerReplies ==
    {[parsed |-> TRUE, approval |-> a, statuses |-> q] :
        a \in RawApprovals, q \in SeqsUpTo(RawStatuses, MaxObjections)}
    \cup {NoReply}

\* one reply for each distinct result of reviewer.invoke()
CanonicalReplies ==
    {r \in ReviewerReplies :
        /\ r.approval = "absent"
        /\ \A i \in 1..Len(r.statuses) : r.statuses[i] = ValidStatus(r.statuses[i])}

\* reviewer._parse_response(): the validated object, or the default review
ParseResponse(reply) ==
    IF reply.parsed THEN ValidateAndCompleteReview(reply.approval, reply.statuses)
    ELSE DefaultReview

\* every result reviewer.invoke() can return
ReviewerResults ==
    {ValidateAndCompleteReview(a, q) :
        a \in RawApprovals, q \in SeqsUpTo(RawStatuses, MaxObjections)}
    \cup {DefaultReview}

\* --- conversation.py: turns and the ledger
\* AgentTurn: role, content (toks: the phrases in the text; data: the object the
\* extraction engine recovers from the text, NoData when it recovers none),
\* and by: the thread whose call appended it
Turn(role, toks, data, by) == [role |-> role, toks |-> toks, data |-> data, by |-> by]

\* _map_agent_name_to_role() on the agent names the orchestrator uses
MapAgentNameToRole(name) ==
    CASE name = "evidence-curator" -> "curator"
      [] name = "policy-interpreter" -> "interpreter"
      [] name = "compliance-reviewer" -> "reviewer"
      [] name = "Supervisor" -> "supervisor"
      [] OTHER -> "unknown"

\* AgentTurn as the ledger holds it: the Turn fields, the timestamp
\* (datetime: seconds and microseconds) and the metadata dict
AgentTurn(role, toks, data, by, timestamp, metadata) ==
    [role |-> role, toks |-> toks, data |-> data, by |-> by,
     timestamp |-> timestamp, metadata |-> metadata]

\* Message(role, content, name, timestamp)
Message(role, toks, name, timestamp) ==
    [role |-> role, toks |-> toks, name |-> name, timestamp |-> timestamp]

\* variant of isoformat() that writes whole seconds only (sensitivity of C12)
IsoFormatSeconds(ts) == <<ts.sec>>

\* datetime.isoformat(): the microseconds are written only when they are not 0;
\* the text is the tuple of the numbers written
IsoFormat(ts) == IF ts.micro = 0 THEN <<ts.sec>> ELSE <<ts.sec, ts.micro>>

\* datetime.fromisoformat() on the texts isoformat() writes
FromIsoFormat(text) ==
    [sec |-> text[1], micro |-> IF Len(text) > 1 THEN text[2] ELSE 0]

\* from_export lines 262-266 / 276-280: an absent or empty timestamp text
\* becomes datetime.now()
RestoredTimestamp(text, now) == IF text = <<>> THEN now ELSE FromIsoFormat(text)

\* add_message() at the clock readings t_msg (line 90) and t_turn (add_turn,
\* line 67): the raw message is recorded, assistant messages are tagged by
\* agent name, user messages are the supervisor's
AddMessageAt(ledger, msg_role, toks, data, name, by, t_msg, t_turn) ==
    LET mapped_role == IF msg_role = "assistant" THEN MapAgentNameToRole(name)
                       ELSE "supervisor"
    IN  [ledger EXCEPT
           !.messages = Append(@, Message(msg_role, toks, name, t_msg)),
           !.turns = Append(@, AgentTurn(mapped_role, toks, data, by, t_turn,
                               [author_role |-> msg_role,
                                agent_name  |-> IF name = "" THEN "Supervisor" ELSE name,
                                mapped_role |-> mapped_role]))]

\* the orchestrator's clock: one tick per turn
Clock(ledger) == [sec |-> Len(ledger.turns) + 1, micro |-> 0]

\* add_message() as the orchestrator calls it
AddMessage(ledger, msg_role, toks, data, name, by) ==
    AddMessageAt(ledger, msg_role, toks, data, name, by, Clock(ledger), Clock(ledger))

\* the case_id None of a ledger rehydrated from data without a case_id
NoCaseId == 0

\* ConversationHistory(case_id)
NewLedger(case_id) ==
    [exists |-> TRUE, case_id |-> case_id, turns |-> <<>>, messages |-> <<>>]
NoLedger == [exists |-> FALSE, case_id |-> 0, turns |-> <<>>, messages |-> <<>>]

\* export_to_dict(): the timestamps are written with isoformat()
ExportToDict(ledger) ==
    [case_id  |-> ledger.case_id,
     turns    |-> [i \in 1..Len(ledger.turns) |->
                     [ledger.turns[i] EXCEPT !.timestamp = IsoFormat(@)]],
     messages |-> [i \in 1..Len(ledger.messages) |->
                     [ledger.messages[i] EXCEPT !.timestamp = IsoFormat(@)]]]

\* from_export(): messages first, then turns, the timestamps parsed back
\* (data.get(): a missing case_id reads None, missing lists read [])
FromExportAt(data, now) ==
    LET turns    == Get(data, "turns", <<>>)
        messages == Get(data, "messages", <<>>)
    IN  [exists   |-> TRUE,
         case_id  |-> Get(data, "case_id", NoCaseId),
         turns    |-> [i \in 1..Len(turns) |->
                         [turns[i] EXCEPT !.timestamp = RestoredTimestamp(@, now)]],
         messages |-> [i \in 1..Len(messages) |->
                         [messages[i] EXCEPT !.timestamp = RestoredTimestamp(@, now)]]]

FromExport(data) ==
    FromExportAt(data, [sec |-> Len(Get(data, "turns", <<>>)) + 1, micro |-> 0])

\* what prev_state holds under "conversation": the export as built, no such
\* key, an export without its case_id, or a value that is not a dict
SnapshotShapes == {"intact", "missing", "no_case_id", "not_a_dict"}
CorruptShapes == SnapshotShapes \ {"intact"}

\* a dict without the key k
WithoutKey(d, k) == [key \in DOMAIN d \ {k} |-> d[key]]

\* resume_collaboration lines 416-419: from_export(prev_state.get(
\* "conversation", {})); from_export raises on a value without .get(), and
\* the handler starts ConversationHistory(case_id=prev_state.get("case_id"))
RehydratedLedger(prev_state, shape) ==
    CASE shape = "intact"     -> FromExport(prev_state.conversation)
      [] shape = "missing"    -> FromExport(EmptyDict)
      [] shape = "no_case_id" -> FromExport(WithoutKey(prev_state.conversation, "case_id"))
      [] shape = "not_a_dict" -> NewLedger(prev_state.case_id)

Roles(turns) == [i \in 1..Len(turns) |-> turns[i].role]
Texts(turns) == [i \in 1..Len(turns) |-> turns[i].toks]

\* get_turns_by_role()
RECURSIVE TurnsByRole(_, _)
TurnsByRole(turns, role) ==
    IF turns = <<>> THEN <<>>
    ELSE (IF Head(turns).role = role THEN <<Head(turns)>> ELSE <<>>)
         \o TurnsByRole(Tail(turns), role)

\* the loop `for turn in reversed(role_turns)` of the _extract_*_data methods:
\* the object of the most recent turn that yields one, NoData when none does
RECURSIVE LatestObject(_)
LatestObject(role_turns) ==
    IF role_turns = <<>> THEN NoData
    ELSE IF role_turns[Len(role_turns)].data.kind # "none"
         THEN role_turns[Len(role_turns)].data
         ELSE LatestObject(SubSeq(role_turns, 1, Len(role_turns) - 1))

\* _extract_decision_data(): both defaults carry coverage_position "Deny"
ExtractDecisionData(ledger) ==
    LET found == LatestObject(TurnsByRole(ledger.turns, "interpreter"))
    IN  IF found.kind = "none" THEN DefaultDecision ELSE found

\* _extract_review_data()
ExtractReviewData(ledger) ==
    LET rts   == TurnsByRole(ledger.turns, "reviewer")
        found == LatestObject(rts)
    IN  IF rts = <<>> THEN Review(FALSE, <<>>)
        ELSE IF found.kind = "none"
             THEN Review(FALSE, <<Objection("Parsing Error", "Blocking",
                         "Unable to parse compliance review from agent responses")>>)
             ELSE found

\* _extract_evidence_data(): the object of the most recent curator turn that
\* yields one; lines 634-637 and 699-713 are the two defaults
ExtractEvidenceData(ledger) ==
    LET cts   == TurnsByRole(ledger.turns, "curator")
        found == LatestObject(cts)
    IN  IF cts = <<>> THEN [evidence |-> <<>>, expense |-> EmptyDict]
        ELSE IF found.kind = "none"
             THEN [evidence |-> <<>>, expense |-> EmptyExpense,
                   fnol_summary |-> <<"x">>,
                   metadata |-> [processing_notes |->
                                    <<"Failed to parse evidence from curator turns">>,
                                 plugin_errors |-> <<>>]]
             ELSE found.data

\* _get_rounds_completed()
RoundsCompleted(ledger) ==
    LET total == Len(ledger.turns)
        agent_turns == IF total - 1 > 0 THEN total - 1 ELSE 0
    IN  (agent_turns + 2) \div 3

\* --- SpecLedger harness: a ledger is built by add_message calls, then
\* exported and rehydrated
Stamps == {[sec |-> 1, micro |-> 0], [sec |-> 1, micro |-> 5]}
LedgerNames == {"", "policy-interpreter", "compliance-reviewer"}
LedgerContents == {Decision("Pay"), Review(TRUE, <<>>)}
LedgerCaseIds == {0, 1}

LedIdle ==
    /\ led = NoLedger
    /\ restored = NoLedger

LedAdd(msg_role, name, data, t_msg, t_turn) ==
    /\ ~restored.exists
    /\ Len(led.turns) < MaxTurns
    /\ led' = AddMessageAt(led, msg_role, {}, data, name, 0, t_msg, t_turn)
    /\ UNCHANGED <<restored, fmtVars, mrgVars, selVars, termVars, compVars, orchVars, auxVars>>

LedRoundTrip(now) ==
    /\ ~restored.exists
    /\ restored' = FromExportAt(ExportToDict(led), now)
    /\ UNCHANGED <<led, fmtVars, mrgVars, selVars, termVars, compVars, orchVars, auxVars>>

\* --- results
\* _build_resume_state(); present = FALSE stands for "no resume_state"
NoResumeState ==
    [present |-> FALSE, case_id |-> 0, conversation |-> [case_id |-> 0, turns |-> <<>>, messages |-> <<>>],
     evidence_result |-> NoData, decision_result |-> NoData, review_result |-> NoData]

BuildResumeState(ledger, evidence, decision, review) ==
    [present |-> TRUE, case_id |-> ledger.case_id, conversation |-> ExportToDict(ledger),
     evidence_result |-> evidence, decision_result |-> decision, review_result |-> review]

\* call: "run" | "resume"; kind: "decision" (compiled), "error_decision"
\* (_error_decision), "error_response" (reasoner._error_response), "raised" (the
\* exception left run_reasoner / continue_reasoner); exc: the exception raised
\* inside the call, NoExc when none was
NoResult ==
    [call |-> "none", kind |-> "none", exc |-> NoExc, case_id |-> 0, outcome |-> "",
     approval |-> FALSE, objections |-> <<>>, turns |-> <<>>, paused_for_user |-> FALSE,
     resume_state |-> NoResumeState, rounds_completed |-> 0, evidence |-> <<>>]

\* _error_decision(case_id, error_message)
ErrorDecision(case_id, error_message) ==
    [NoResult EXCEPT !.kind = "error_decision", !.case_id = case_id, !.outcome = "Deny",
        !.objections = <<Objection("Processing Error", "Blocking", error_message)>>,
        !.approval = FALSE, !.turns = <<>>, !.rounds_completed = 0]

\* reasoner._error_response(error_message)
ErrorResponse(error_message) ==
    [NoResult EXCEPT !.kind = "error_response", !.outcome = "Deny",
        !.objections = <<Objection("Processing Error", "Blocking", error_message)>>,
        !.turns = <<Turn("supervisor", {}, NoData, 0)>>]

\* _compile_decision(): `not self.conversation` is true for None and, through
\* __len__, for a ledger without turns
CompileDecision(ledger) ==
    IF ~ledger.exists \/ Len(ledger.turns) = 0
    THEN ErrorDecision(0, "No conversation history")
    ELSE LET evidence_data == ExtractEvidenceData(ledger)
             decision_data == ExtractDecisionData(ledger)
             review_data   == ExtractReviewData(ledger)
         IN  [NoResult EXCEPT
                !.evidence = Get(evidence_data, "evidence", <<>>),
                !.kind = "decision",
                !.case_id = ledger.case_id,
                !.outcome = FinalOutcome(decision_data.position, review_data.approval,
                                         review_data.objections),
                !.approval = review_data.approval,
                !.objections = review_data.objections,
                !.turns = ledger.turns,
                !.rounds_completed = RoundsCompleted(ledger)]

\* variant handler that lets the domain exceptions through (sensitivity of C4)
RunCollaborationCatchesNarrow(exc) == exc # "ClaimsProcessingError"

\* run_collaboration, line 200: `except Exception` catches every exception kind
RunCollaborationCatches(exc) == exc \in ExcKinds

\* run_reasoner lines 168-176, continue_reasoner lines 291-295:
\* `except ClaimsProcessingError: raise`, then `except Exception: return _error_response`
ReasonerCatches(exc) == exc # "ClaimsProcessingError"

Raised(exc) == [NoResult EXCEPT !.kind = "raised", !.exc = exc]

\* what the caller of run_reasoner gets when exc is raised inside run_collaboration
RunOutcomeOnException(exc, case_id) ==
    IF RunCollaborationCatches(exc) THEN [ErrorDecision(case_id, exc) EXCEPT !.exc = exc]
    ELSE IF ReasonerCatches(exc) THEN [ErrorResponse(exc) EXCEPT !.exc = exc]
    ELSE Raised(exc)

\* what the caller of continue_reasoner gets when exc is raised inside
\* resume_collaboration, which has no handler of its own
ResumeOutcomeOnException(exc) ==
    IF ReasonerCatches(exc) THEN [ErrorResponse(exc) EXCEPT !.exc = exc]
    ELSE Raised(exc)

\* variant of the suspend point that waits for round 2 (sensitivity of C1)
PauseConditionLate(current_round, blocking_count, approved) ==
    current_round = 2 /\ blocking_count > 0 /\ ~approved

\* variant of the suspend point that leaves round 1 out (sensitivity of C24)
PauseConditionAfterRoundOne(current_round, blocking_count, approved) ==
    current_round > 1 /\ blocking_count > 0 /\ ~approved

\* line 158: the round-1 suspend point
PauseCondition(current_round, blocking_count, approved) ==
    current_round = 1 /\ blocking_count > 0 /\ ~approved

\* line 172
BreakCondition(blocking_count, approved) == approved \/ blocking_count = 0

\* line 440: evidence_result = _merge_evidence(evidence_result, new_evidence)
MergedEvidenceResult(base, delta) ==
    IF base.kind = "none" THEN delta
    ELSE [base EXCEPT !.failed = base.failed \/ delta.failed,
                      !.data = MergeEvidence(base.data, delta.data)]

\* _format_evidence_response / _format_review_response: the phrases the
\* formatted text carries
EvidenceToks(ev) == IF ev.failed THEN {"Processing failed"} ELSE {}
ReviewToks(rv) == IF rv.approval THEN {"\"approval\": true"} ELSE {}

\* phrases the claimant's narrative and the interpreter's rationale may carry
NarrativeChoices == {{}, {"FATAL ERROR"}}
RationaleChoices == {{}, {"Unable to process"}}
MaxRoundsChoices == {0, DefaultMaxRounds}

NoLoc ==
    [call |-> "none", evidence_result |-> NoData, decision_result |-> NoData,
     review_result |-> NoData, has_support |-> FALSE, base_len |-> 0,
     prev_evidence |-> NoData, new_evidence |-> NoData, reviewer_reply |-> NoReply,
     snapshot |-> "intact", prev_case_id |-> NoCaseId]

\* --- the caller: server._process_job / _continue_job store the result and
\* result.get("resume_state") in the job record
Return(t, res) ==
    /\ result' = [result EXCEPT ![t] = res]
    /\ job' = [job EXCEPT ![t].resume_state = res.resume_state]
    /\ pc' = [pc EXCEPT ![t] = IF res.kind = "raised" THEN "raised" ELSE "returned"]

\* --- run_collaboration, lines 81-99: a new ledger replaces
\* self.conversation, the initial prompt is added, the strategies are created
StartRun(t) ==
    /\ pc[t] = "idle"
    /\ heap' = [heap EXCEPT ![t] =
                  AddMessage(NewLedger(job[t].case_id), "user", job[t].narrative,
                             NoData, "Supervisor", t)]
    /\ conv' = t
    /\ sel' = [sel EXCEPT ![t] = SelInitial]
    /\ term' = [term EXCEPT ![t] = 1]
    /\ loc' = [loc EXCEPT ![t] = [NoLoc EXCEPT !.call = "run"]]
    /\ pc' = [pc EXCEPT ![t] = "loop"]
    /\ UNCHANGED <<result, job, max_rounds, selVars, termVars, compVars, pureVars>>

\* an exception raised inside the loop body of run_collaboration
RunRaise(t, exc) ==
    /\ Return(t, [RunOutcomeOnException(exc, job[t].case_id) EXCEPT !.call = "run"])
    /\ UNCHANGED <<heap, loc, term>>

\* lines 176-198: the termination strategy is consulted; on a break or a true
\* result the decision is compiled from self.conversation and returned
EndOfIteration(t, h2, newloc, role, broke) ==
    LET st   == ShouldTerminate(term[t], max_rounds, role, Texts(h2[conv].turns))
        stop == broke \/ st.result
    IN  /\ heap' = h2
        /\ loc' = [loc EXCEPT ![t] = newloc]
        /\ term' = [term EXCEPT ![t] = IF broke THEN term[t] ELSE st.cr]
        /\ IF stop
           THEN Return(t, [CompileDecision(h2[conv]) EXCEPT !.call = "run"])
           ELSE UNCHANGED <<result, job, pc>>

\* the clarification pack (a supervisor turn) is added when there is evidence
WithClarificationPack(ledger, evidence, t) ==
    IF evidence.kind = "none" THEN ledger
    ELSE AddMessage(ledger, "user", EvidenceToks(evidence), NoData, "Supervisor", t)

\* lines 105-120
CuratorTurn(t) ==
    /\ pc[t] = "loop"
    /\ conv # 0
    /\ SelNext(sel[t]).role = "curator"
    /\ sel' = [sel EXCEPT ![t] = SelNext(sel[t]).st]
    /\ IF SelCurrentRound(SelNext(sel[t]).st) = 1
       THEN \E failed \in BOOLEAN :
              LET ev == Evidence(failed, RunImages)
                  h2 == [heap EXCEPT ![conv] =
                           AddMessage(@, "assistant", EvidenceToks(ev), ev,
                                      "evidence-curator", t)]
              IN  EndOfIteration(t, h2, [loc[t] EXCEPT !.evidence_result = ev],
                                 "curator", FALSE)
       ELSE LET h2 == [heap EXCEPT ![conv] =
                         AddMessage(WithClarificationPack(@, loc[t].evidence_result, t),
                                    "assistant", {}, NoData, "evidence-curator", t)]
            IN  EndOfIteration(t, h2, loc[t], "curator", FALSE)
    /\ UNCHANGED <<conv, max_rounds, selVars, termVars, compVars, pureVars>>

\* lines 122-138: interpreter.invoke() re-raises, revise_decision() does not
InterpreterTurn(t) ==
    /\ pc[t] = "loop"
    /\ conv # 0
    /\ SelNext(sel[t]).role = "interpreter"
    /\ sel' = [sel EXCEPT ![t] = SelNext(sel[t]).st]
    /\ \/ /\ SelCurrentRound(SelNext(sel[t]).st) = 1
          /\ \E exc \in ExcKinds : RunRaise(t, exc)
       \/ \E position \in Positions, toks \in RationaleChoices :
            LET d  == Decision(position)
                h2 == [heap EXCEPT ![conv] =
                         AddMessage(@, "assistant", toks, d, "policy-interpreter", t)]
            IN  EndOfIteration(t, h2, [loc[t] EXCEPT !.decision_result = d],
                               "interpreter", FALSE)
    /\ UNCHANGED <<conv, max_rounds, selVars, termVars, compVars, pureVars>>

\* lines 140-174: reviewer.invoke() re-raises; garbled = the extraction engine
\* recovers no object from the formatted reviewer text
ReviewerTurn(t, replies) ==
    /\ pc[t] = "loop"
    /\ conv # 0
    /\ SelNext(sel[t]).role = "reviewer"
    /\ sel' = [sel EXCEPT ![t] = SelNext(sel[t]).st]
    /\ \/ \E exc \in ExcKinds : RunRaise(t, exc)
       \/ \E reply \in replies, garbled \in BOOLEAN :
            LET rv == ParseResponse(reply)
                h2 == [heap EXCEPT ![conv] =
                         AddMessage(@, "assistant", ReviewToks(rv),
                                    IF garbled THEN NoData ELSE rv,
                                    "compliance-reviewer", t)]
                newloc == [loc[t] EXCEPT !.review_result = rv,
                                         !.reviewer_reply = reply]
                approved == rv.approval
                blocking_count == Cardinality(BlockingObjections(rv.objections))
            IN  IF PauseCondition(SelCurrentRound(SelNext(sel[t]).st),
                                  blocking_count, approved)
                THEN /\ heap' = h2
                     /\ loc' = [loc EXCEPT ![t] = newloc]
                     /\ term' = term
                     /\ Return(t, [CompileDecision(h2[conv]) EXCEPT
                                     !.call = "run",
                                     !.paused_for_user = TRUE,
                                     !.resume_state =
                                         BuildResumeState(h2[conv], newloc.evidence_result,
                                             newloc.decision_result, newloc.review_result)])
                ELSE EndOfIteration(t, h2, newloc, "reviewer",
                                    BreakCondition(blocking_count, approved))
    /\ UNCHANGED <<conv, max_rounds, selVars, termVars, compVars, pureVars>>

\* --- continue_reasoner -> resume_collaboration
\* variant order that leaves the interpreter out (sensitivity of C6)
ResumeNextPcSkipping(at) == "r_reviewer"

\* the order of the awaited role calls of resume_collaboration, lines 427-481
ResumeNextPc(at) == IF at = "r_curator" THEN "r_interpreter" ELSE "r_reviewer"

\* _continue_job's guard and lines 416-425: the ledger is rehydrated from the
\* stored ResumeState and replaces self.conversation, the snapshots are restored
StartResume(t, support, shape) ==
    /\ pc[t] \in {"returned", "raised"}
    /\ job[t].resume_state.present
    /\ heap' = [heap EXCEPT ![t] = RehydratedLedger(job[t].resume_state, shape)]
    /\ conv' = t
    /\ loc' = [loc EXCEPT ![t] =
                 [call |-> "resume",
                  evidence_result |-> job[t].resume_state.evidence_result,
                  decision_result |-> job[t].resume_state.decision_result,
                  review_result   |-> job[t].resume_state.review_result,
                  has_support     |-> support,
                  base_len        |-> Len(RehydratedLedger(job[t].resume_state,
                                                               shape).turns),
                  snapshot        |-> shape,
                  prev_case_id    |-> job[t].resume_state.case_id,
                  prev_evidence   |-> job[t].resume_state.evidence_result,
                  new_evidence    |-> NoData,
                  reviewer_reply  |-> NoReply]]
    /\ result' = [result EXCEPT ![t] = NoResult]
    /\ pc' = [pc EXCEPT ![t] = "r_curator"]
    /\ UNCHANGED <<job, sel, term, max_rounds, selVars, termVars, compVars, pureVars>>

\* an exception raised inside resume_collaboration
ResumeRaise(t, exc) ==
    /\ Return(t, [ResumeOutcomeOnException(exc) EXCEPT
                    !.call = "resume",
                    !.resume_state = IF ReasonerCatches(exc) THEN NoResumeState
                                     ELSE job[t].resume_state])
    /\ UNCHANGED <<heap, loc>>

\* lines 437-440 (curator.invoke never raises) and lines 451-460
ResumeCurator(t) ==
    /\ pc[t] = "r_curator"
    /\ conv # 0
    /\ IF loc[t].has_support
       THEN \E failed \in BOOLEAN, images \in SupplementalImages :
              LET new_evidence == Evidence(failed, images)
              IN  /\ heap' = [heap EXCEPT ![conv] =
                                AddMessage(@, "assistant", EvidenceToks(new_evidence),
                                           new_evidence, "evidence-curator", t)]
                  /\ loc' = [loc EXCEPT
                                ![t].new_evidence = new_evidence,
                                ![t].evidence_result =
                                    MergedEvidenceResult(loc[t].evidence_result,
                                                         new_evidence)]
       ELSE /\ heap' = [heap EXCEPT ![conv] =
                          AddMessage(WithClarificationPack(@, loc[t].evidence_result, t),
                                     "assistant", {}, NoData, "evidence-curator", t)]
            /\ loc' = loc
    /\ pc' = [pc EXCEPT ![t] = ResumeNextPc(pc[t])]
    /\ UNCHANGED <<conv, result, job, sel, term, max_rounds, selVars, termVars, compVars, pureVars>>

\* lines 442-449 (interpreter.invoke re-raises) and lines 462-468
ResumeInterpreter(t) ==
    /\ pc[t] = "r_interpreter"
    /\ conv # 0
    /\ \/ /\ loc[t].has_support
          /\ \E exc \in ExcKinds : ResumeRaise(t, exc)
       \/ \E position \in Positions :
            /\ heap' = [heap EXCEPT ![conv] =
                          AddMessage(@, "assistant", {}, Decision(position),
                                     "policy-interpreter", t)]
            /\ loc' = [loc EXCEPT ![t].decision_result = Decision(position)]
            /\ pc' = [pc EXCEPT ![t] = ResumeNextPc(pc[t])]
            /\ UNCHANGED <<result, job>>
    /\ UNCHANGED <<conv, sel, term, max_rounds, selVars, termVars, compVars, pureVars>>

\* lines 470-481: the reviewer is invoked, the decision compiled and returned
ResumeReviewer(t) ==
    /\ pc[t] = "r_reviewer"
    /\ conv # 0
    /\ \/ \E exc \in ExcKinds : ResumeRaise(t, exc)
       \/ \E rv \in ReviewerResults, garbled \in BOOLEAN :
            LET h2 == [heap EXCEPT ![conv] =
                         AddMessage(@, "assistant", ReviewToks(rv),
                                    IF garbled THEN NoData ELSE rv,
                                    "compliance-reviewer", t)]
            IN  /\ heap' = h2
                /\ loc' = [loc EXCEPT ![t].review_result = rv]
                /\ Return(t, [CompileDecision(h2[conv]) EXCEPT !.call = "resume"])
    /\ UNCHANGED <<conv, sel, term, max_rounds, selVars, termVars, compVars, pureVars>>

\* =====================================================================
\* server.py: the continue endpoint and its background task
\* =====================================================================
Requests == 1..MaxRequests

\* what continue_reasoner can do: return a compiled decision, return
\* reasoner._error_response(), or raise (ClaimsProcessingError is re-raised)
ContinueOutcomes == {"decision", "error_response", "raised"}

\* the job as a paused run left it: status needs_user_uploads, a ResumeState
\* stored (_process_job lines 563-570), no continue request made yet
ContIdle ==
    /\ cj_resume = 1
    /\ cj_status = "needs_user_uploads"
    /\ cj_pc = [r \in Requests |-> "none"]
    /\ cj_from = [r \in Requests |-> 0]

contRest == <<ledVars, fmtVars, mrgVars, selVars, termVars, compVars, orchVars,
              iniVars, rtVars, ckVars>>

\* resume_claim: the uploads are read and validated, the background task is
\* added, "accepted" is answered; the job's status and resume_state are not read
ResumeClaim(r) ==
    /\ cj_pc[r] = "none"
    /\ cj_pc' = [cj_pc EXCEPT ![r] = "accepted"]
    /\ UNCHANGED <<cj_resume, cj_status, cj_from, contRest>>

\* _continue_job lines 586-592: the guard, then continue_reasoner is entered
\* with the job's resume_state; jobs_lock is held inside _get_job only
ContinueGuard(r) ==
    /\ cj_pc[r] = "accepted"
    /\ IF cj_resume = 0
       THEN /\ cj_pc' = [cj_pc EXCEPT ![r] = "rejected"]
            /\ UNCHANGED cj_from
       ELSE /\ cj_pc' = [cj_pc EXCEPT ![r] = "running"]
            /\ cj_from' = [cj_from EXCEPT ![r] = cj_resume]
    /\ UNCHANGED <<cj_resume, cj_status, contRest>>

\* _continue_job lines 601-627: a returned result replaces job.resume_state by
\* result.get("resume_state"), which no result of a resume carries; on an
\* exception only status, message and error are written
ContinueEnd(r, outcome) ==
    /\ cj_pc[r] = "running"
    /\ cj_pc' = [cj_pc EXCEPT ![r] = "done"]
    /\ IF outcome = "raised"
       THEN /\ cj_status' = "error"
            /\ UNCHANGED cj_resume
       ELSE /\ cj_status' = "completed"
            /\ cj_resume' = 0
    /\ UNCHANGED <<cj_from, contRest>>

\* =====================================================================
\* reasoner.py: _initialize_system
\* =====================================================================

\* the module as imported: lines 29-32
IniIdle ==
    /\ g_config = FALSE
    /\ g_bedrock_client = FALSE
    /\ g_vector_store = FALSE
    /\ g_supervisor = FALSE
    /\ ini_pc = [t \in Threads |-> "idle"]
    /\ ini_calls = [t \in Threads |-> 0]
    /\ ini_seen = [t \in Threads |-> FALSE]

iniRest == <<ledVars, fmtVars, mrgVars, selVars, termVars, compVars, orchVars,
             contVars, rtVars, ckVars>>

\* the call ends: returned = TRUE for a plain return, FALSE for the
\* ClaimsProcessingError of lines 81-89; supervisor = _supervisor at that time
IniEnd(t, returned, supervisor) ==
    /\ ini_pc' = [ini_pc EXCEPT ![t] = IF returned THEN "returned" ELSE "raised"]
    /\ ini_seen' = [ini_seen EXCEPT ![t] = returned /\ supervisor]

\* lines 43-45: `if _config is not None: return`
IniEnter(t) ==
    /\ ini_pc[t] \in {"idle", "returned", "raised"}
    /\ ini_calls[t] < MaxInitCalls
    /\ ini_calls' = [ini_calls EXCEPT ![t] = @ + 1]
    /\ IF g_config
       THEN IniEnd(t, TRUE, g_supervisor)
       ELSE /\ ini_pc' = [ini_pc EXCEPT ![t] = "config"]
            /\ ini_seen' = [ini_seen EXCEPT ![t] = FALSE]
    /\ UNCHANGED <<g_config, g_bedrock_client, g_vector_store, g_supervisor, iniRest>>

\* line 51: _config = Config.load()
IniConfig(t, ok) ==
    /\ ini_pc[t] = "config"
    /\ g_config' = (g_config \/ ok)
    /\ IF ok THEN /\ ini_pc' = [ini_pc EXCEPT ![t] = "bedrock"]
                  /\ UNCHANGED ini_seen
       ELSE IniEnd(t, FALSE, g_supervisor)
    /\ UNCHANGED <<g_bedrock_client, g_vector_store, g_supervisor, ini_calls, iniRest>>

\* line 55: _bedrock_client = BedrockClient(region=...)
IniBedrock(t, ok) ==
    /\ ini_pc[t] = "bedrock"
    /\ g_bedrock_client' = (g_bedrock_client \/ ok)
    /\ IF ok THEN /\ ini_pc' = [ini_pc EXCEPT ![t] = "vector"]
                  /\ UNCHANGED ini_seen
       ELSE IniEnd(t, FALSE, g_supervisor)
    /\ UNCHANGED <<g_config, g_vector_store, g_supervisor, ini_calls, iniRest>>

\* lines 59-72: _vector_store = PolicyVectorStore(...), then load_index();
\* FileNotFoundError is caught there, ok = FALSE is any other exception
IniVector(t, ok) ==
    /\ ini_pc[t] = "vector"
    /\ g_vector_store' = (g_vector_store \/ ok)
    /\ IF ok THEN /\ ini_pc' = [ini_pc EXCEPT ![t] = "supervisor"]
                  /\ UNCHANGED ini_seen
       ELSE IniEnd(t, FALSE, g_supervisor)
    /\ UNCHANGED <<g_config, g_bedrock_client, g_supervisor, ini_calls, iniRest>>

\* lines 75-78: _supervisor = SupervisorOrchestrator(...), then the return
IniSupervisor(t, ok) ==
    /\ ini_pc[t] = "supervisor"
    /\ g_supervisor' = (g_supervisor \/ ok)
    /\ IniEnd(t, ok, g_supervisor \/ ok)
    /\ UNCHANGED <<g_config, g_bedrock_client, g_vector_store, ini_calls, iniRest>>

\* =====================================================================
\* bedrock_client.py: invoke_nova_pro
\* =====================================================================

\* variant of the retry test that retries after every error code
\* (sensitivity of C29)
IsRetryableErrorAlways(error_code) == TRUE

\* _is_retryable_error(error_code)
IsRetryableError(error_code) ==
    error_code \in {"ThrottlingException", "TooManyRequestsException",
                    "ServiceUnavailableException", "InternalServerException",
                    "RequestTimeout", "RequestTimeoutException"}

\* what one runtime.converse(**params) call does: it returns a response (its
\* content blocks), raises ClientError with an error code, or raises another
\* exception
ConverseOutcomes ==
    {[kind |-> "response", code |-> "", content |-> c] : c \in {<<>>, <<"text">>}}
    \cup {[kind |-> "client_error", code |-> c, content |-> <<>>] :
             c \in {"ThrottlingException", "RequestTimeout", "ValidationException",
                    "Unknown"}}
    \cup {[kind |-> "exception", code |-> "", content |-> <<>>]}

\* _parse_converse_response(response)
ParseConverseResponse(response) ==
    [content |-> response.content,
     text |-> IF response.content # <<>> THEN response.content ELSE <<>>]

RtRunning == [kind |-> "running", exc |-> "", val |-> <<>>]
RtReturned(val) == [kind |-> "returned", exc |-> "", val |-> val]
RtRaised(exc) == [kind |-> "raised", exc |-> exc, val |-> <<>>]

RtIdle ==
    /\ rt_max = 0
    /\ rt_attempt = 0
    /\ rt_log = <<>>
    /\ rt_end = RtRunning

rtRest == <<ledVars, fmtVars, mrgVars, selVars, termVars, compVars, orchVars,
            contVars, iniVars, ckVars>>

\* lines 250-309: one iteration of `for attempt in range(self.max_retries)`
RetryAttempt(outcome) ==
    /\ rt_end = RtRunning
    /\ rt_attempt < rt_max
    /\ rt_log' = Append(rt_log, outcome)
    /\ CASE outcome.kind = "response" ->
              /\ rt_end' = RtReturned(ParseConverseResponse(outcome))
              /\ UNCHANGED rt_attempt
         [] outcome.kind = "client_error" ->
              IF IsRetryableError(outcome.code) /\ rt_attempt < rt_max - 1
              THEN /\ rt_attempt' = rt_attempt + 1
                   /\ UNCHANGED rt_end
              ELSE /\ rt_end' = RtRaised("BedrockAPIError")
                   /\ UNCHANGED rt_attempt
         [] OTHER ->
              /\ rt_end' = RtRaised("BedrockAPIError")
              /\ UNCHANGED rt_attempt
    /\ UNCHANGED <<rt_max, rtRest>>

\* lines 311-318: the loop ends without a return or a raise
RetryExhausted ==
    /\ rt_end = RtRunning
    /\ rt_attempt >= rt_max
    /\ rt_end' = RtRaised("BedrockAPIError")
    /\ UNCHANGED <<rt_max, rt_attempt, rt_log, rtRest>>

\* =====================================================================
\* vector_store.py: _chunk_document
\* =====================================================================

Min(a, b) == IF a < b THEN a ELSE b

\* one bound of the slice words[a:b] of a list of n words: a negative bound
\* counts from the end, and the bound is clamped to 0..n
SliceBound(n, a) == IF a < 0 THEN Max(n + a, 0) ELSE Min(a, n)

\* lines 281-294: the chunk made at index i
Chunk(n, i, chunk_size) ==
    [start_word |-> i,
     end_word   |-> Min(i + chunk_size, n),
     lo         |-> SliceBound(n, i),
     hi         |-> Max(SliceBound(n, i), SliceBound(n, i + chunk_size))]

CkIdle ==
    /\ ck_words = 0
    /\ ck_size = 1
    /\ ck_overlap = 0
    /\ ck_i = 0
    /\ ck_chunks = <<>>
    /\ ck_done = FALSE
    /\ ck_tick = FALSE

ckRest == <<ledVars, fmtVars, mrgVars, selVars, termVars, compVars, orchVars,
            contVars, iniVars, rtVars>>

\* lines 279-299: one iteration of `while i < len(words)`.  Of a loop that
\* goes on, the first MaxChunks chunks are kept, and an index at or below
\* -len(words), where every slice starts at word 0, is kept at -len(words)
ChunkStep ==
    /\ ~ck_done
    /\ ck_i < ck_words
    /\ ck_chunks' = IF Len(ck_chunks) < MaxChunks
                    THEN Append(ck_chunks, Chunk(ck_words, ck_i, ck_size))
                    ELSE ck_chunks
    /\ ck_i' = Max(ck_i + (ck_size - ck_overlap), 0 - ck_words)
    /\ ck_tick' = ~ck_tick
    /\ UNCHANGED <<ck_words, ck_size, ck_overlap, ck_done, ckRest>>

\* lines 279, 301-306: the loop condition is false, chunks is returned
ChunkReturn ==
    /\ ~ck_done
    /\ ck_i >= ck_words
    /\ ck_done' = TRUE
    /\ UNCHANGED <<ck_words, ck_size, ck_overlap, ck_i, ck_chunks, ck_tick, ckRest>>

\* =====================================================================
\* specifications
\* =====================================================================

AuxIdle == ContIdle /\ IniIdle /\ RtIdle /\ CkIdle

PureIdle == LedIdle /\ FmtIdle /\ MrgIdle /\ AuxIdle

HarnessIdle ==
    /\ PureIdle
    /\ sel_h = SelInitial
    /\ emitted = <<>>
    /\ rounds_seen = <<>>
    /\ term_h = [current_round |-> 1, max_rounds |-> DefaultMaxRounds]
    /\ texts_h = <<>>
    /\ last_call = NoCall
    /\ rev_calls = 0
    /\ cin = [position |-> "Deny", approval |-> FALSE, objections |-> <<>>]
    /\ cout = None

OrchInitial(narratives, rounds) ==
    /\ max_rounds \in rounds
    /\ heap = [t \in Threads |-> NoLedger]
    /\ conv = 0
    /\ pc = [t \in Threads |-> "idle"]
    /\ sel = [t \in Threads |-> SelInitial]
    /\ term = [t \in Threads |-> 1]
    /\ loc = [t \in Threads |-> NoLoc]
    /\ result = [t \in Threads |-> NoResult]
    /\ job \in [Threads -> [case_id : Threads, narrative : narratives,
                            resume_state : {NoResumeState}]]
    /\ \A t \in Threads : job[t].case_id = t

\* --- Spec: one job, processed by one thread: the run, then resumes
Init ==
    /\ HarnessIdle
    /\ OrchInitial(NarrativeChoices, MaxRoundsChoices)
    /\ job[2].narrative = {}

Next ==
    \/ StartRun(1)
    \/ CuratorTurn(1)
    \/ InterpreterTurn(1)
    \/ ReviewerTurn(1, ReviewerReplies)
    \/ \E support \in BOOLEAN : StartResume(1, support, "intact")
    \/ ResumeCurator(1)
    \/ ResumeInterpreter(1)
    \/ ResumeReviewer(1)

Spec == Init /\ [][Next]_vars

\* --- SpecCorrupt: one job whose stored ResumeState reaches
\* resume_collaboration with a damaged ledger snapshot
InitCorrupt ==
    /\ HarnessIdle
    /\ OrchInitial({{}}, {DefaultMaxRounds})

NextCorrupt ==
    \/ StartRun(1)
    \/ CuratorTurn(1)
    \/ InterpreterTurn(1)
    \/ ReviewerTurn(1, CanonicalReplies)
    \/ \E support \in BOOLEAN, shape \in CorruptShapes : StartResume(1, support, shape)
    \/ ResumeCurator(1)
    \/ ResumeInterpreter(1)
    \/ ResumeReviewer(1)

SpecCorrupt == InitCorrupt /\ [][NextCorrupt]_vars

\* --- SpecConc: two jobs, each processed by run_reasoner in its own
\* background thread, on the one module-level supervisor
InitConc ==
    /\ HarnessIdle
    /\ OrchInitial({{}}, {DefaultMaxRounds})

NextConc ==
    \E t \in Threads :
        \/ StartRun(t)
        \/ CuratorTurn(t)
        \/ InterpreterTurn(t)
        \/ ReviewerTurn(t, CanonicalReplies)

SpecConc == InitConc /\ [][NextConc]_vars

\* --- SpecSel
InitSel ==
    /\ HarnessIdle
    /\ OrchInitial({{}}, {DefaultMaxRounds})

NextSel == SelCall \/ SelReset

SpecSel == InitSel /\ [][NextSel]_vars

\* --- SpecTerm
InitTerm ==
    /\ sel_h = SelInitial
    /\ emitted = <<>>
    /\ rounds_seen = <<>>
    /\ term_h \in [current_round : {1}, max_rounds : 1..DefaultMaxRounds]
    /\ texts_h = <<>>
    /\ last_call = NoCall
    /\ rev_calls = 0
    /\ cin = [position |-> "Deny", approval |-> FALSE, objections |-> <<>>]
    /\ cout = None
    /\ PureIdle
    /\ OrchInitial({{}}, {DefaultMaxRounds})

NextTerm ==
    \/ \E role \in HarnessRoles, text \in HarnessTexts : TermCall(role, text)
    \/ TermReset

SpecTerm == InitTerm /\ [][NextTerm]_vars

\* --- SpecCompile
InitCompile ==
    /\ sel_h = SelInitial
    /\ emitted = <<>>
    /\ rounds_seen = <<>>
    /\ term_h = [current_round |-> 1, max_rounds |-> DefaultMaxRounds]
    /\ texts_h = <<>>
    /\ last_call = NoCall
    /\ rev_calls = 0
    /\ cin \in [position   : Positions,
                approval   : BOOLEAN,
                objections : {[i \in 1..Len(q) |-> Objection("Objection", q[i], "m")] :
                                 q \in SeqsUpTo(ExtractedStatuses, MaxObjections)}]
    /\ cout = None
    /\ PureIdle
    /\ OrchInitial({{}}, {DefaultMaxRounds})

NextCompile == CompileApply

SpecCompile == InitCompile /\ [][NextCompile]_vars

\* --- SpecLedger
InitLedger ==
    /\ sel_h = SelInitial
    /\ emitted = <<>>
    /\ rounds_seen = <<>>
    /\ term_h = [current_round |-> 1, max_rounds |-> DefaultMaxRounds]
    /\ texts_h = <<>>
    /\ last_call = NoCall
    /\ rev_calls = 0
    /\ cin = [position |-> "Deny", approval |-> FALSE, objections |-> <<>>]
    /\ cout = None
    /\ led \in {NewLedger(c) : c \in LedgerCaseIds}
    /\ restored = NoLedger
    /\ FmtIdle
    /\ MrgIdle
    /\ AuxIdle
    /\ OrchInitial({{}}, {DefaultMaxRounds})

NextLedger ==
    \/ \E msg_role \in {"user", "assistant"}, name \in LedgerNames,
          data \in LedgerContents, t_msg \in Stamps, t_turn \in Stamps :
            LedAdd(msg_role, name, data, t_msg, t_turn)
    \/ \E now \in Stamps : LedRoundTrip(now)

SpecLedger == InitLedger /\ [][NextLedger]_vars

\* --- SpecFormat, SpecExtract, SpecEmbedded
FmtRest ==
    /\ sel_h = SelInitial
    /\ emitted = <<>>
    /\ rounds_seen = <<>>
    /\ term_h = [current_round |-> 1, max_rounds |-> DefaultMaxRounds]
    /\ texts_h = <<>>
    /\ last_call = NoCall
    /\ rev_calls = 0
    /\ cin = [position |-> "Deny", approval |-> FALSE, objections |-> <<>>]
    /\ cout = None
    /\ LedIdle
    /\ OrchInitial({{}}, {DefaultMaxRounds})
    /\ ftext = <<>>
    /\ fres = NotRun
    /\ femb = NotRun
    /\ fparts = 0

\* --- SpecTurn: one interpreter turn as the orchestrator writes and reads it
\* the characters of the string value of O: "<" is the less-than sign
TurnChars == {"x", "<", "b", "n", ":", ","}

\* str.replace("<", "&lt;") on one character; "lt" is the text "&lt;"; the
\* markers <<<JSON_START>>> and <<<JSON_END>>> begin with "<" and come out as
\* the texts "Sx" and "Ex", which are not the markers
ReplaceLtChar(c) ==
    CASE c = "<" -> "lt"
      [] c = "S" -> "Sx"
      [] c = "E" -> "Ex"
      [] OTHER -> c

RECURSIVE ReplaceLt(_)
ReplaceLt(s) ==
    IF s = <<>> THEN <<>>
    ELSE <<ReplaceLtChar(Head(s))>> \o ReplaceLt(Tail(s))

\* the decisions O: {"rationale": v}, the key written "x"
TurnObjects ==
    {JObj(<<JMember(<<"x">>, JStr(v))>>) : v \in SeqsUpTo(TurnChars, MaxChars)}

\* _format_decision_response(decision_result): the heading and position
\* lines, "Rationale:" and the rationale as it is, the <details> line, the
\* <pre> line with the escaped JSON block, the closing lines
FormatDecisionResponse(decision_result) ==
    LET rationale == decision_result.members[1].value.chars
    IN  <<"x", "n", "x", ":", "n">> \o rationale
        \o <<"n", "x", "n", "x">>
        \o ReplaceLt(FormatJsonResponse(decision_result))
        \o <<"x", "n", "x">>

\* _extract_decision_data() on the one interpreter turn: the object of
\* ResponseFormatter when it has the expected key; by "fallback" stands for
\* the later methods, reached when the formatter returns none
AcceptedDecision(decision_data) ==
    IF /\ decision_data.kind = "found"
       /\ decision_data.val.t = "obj"
       /\ \E i \in 1..Len(decision_data.val.members) :
              decision_data.val.members[i].key = <<"x">>
    THEN decision_data
    ELSE [kind |-> "none", val |-> NoValue, by |-> "fallback"]

ExtractDecisionFromTurn(content) == AcceptedDecision(ExtractJsonFromResponse(content))

\* the interpreter turn is formatted and appended
TurnFormat ==
    /\ fobj.t = "obj"
    /\ ftext = <<>>
    /\ ftext' = FormatDecisionResponse(fobj)
    /\ fparts' = 1
    /\ UNCHANGED <<fobj, fres, femb, ledVars, mrgVars, selVars, termVars, compVars, orchVars, auxVars>>

\* decision compilation reads the turn; femb is what the delimited method
\* alone returns on it
TurnExtract ==
    /\ ftext # <<>>
    /\ fres = NotRun
    /\ fres' = ExtractDecisionFromTurn(ftext)
    /\ femb' = ExtractDelimited(Strip(ftext))
    /\ UNCHANGED <<fobj, ftext, fparts, ledVars, mrgVars, selVars, termVars, compVars, orchVars, auxVars>>

InitTurn == FmtRest /\ MrgIdle /\ AuxIdle /\ fobj \in TurnObjects

NextTurn == TurnFormat \/ TurnExtract

SpecTurn == InitTurn /\ [][NextTurn]_vars

\* --- SpecStartup: the first run_reasoner / continue_reasoner calls of two
\* server threads enter _initialize_system
InitStartup == FmtRest /\ fobj = NoValue /\ MrgIdle /\ AuxIdle

NextStartup ==
    \E t \in Threads :
        \/ IniEnter(t)
        \/ \E ok \in BOOLEAN :
              \/ IniConfig(t, ok)
              \/ IniBedrock(t, ok)
              \/ IniVector(t, ok)
              \/ IniSupervisor(t, ok)

SpecStartup == InitStartup /\ [][NextStartup]_vars

\* --- SpecRetry: one invoke_nova_pro call on a client built with max_retries
\* in 0..MaxRetries; each runtime.converse call comes back (the client is
\* built with a read timeout), so the loop is weakly fair
InitRetry ==
    /\ FmtRest /\ fobj = NoValue /\ MrgIdle /\ ContIdle /\ IniIdle /\ CkIdle
    /\ rt_max \in 0..MaxRetries
    /\ rt_attempt = 0
    /\ rt_log = <<>>
    /\ rt_end = RtRunning

NextRetry ==
    \/ \E outcome \in ConverseOutcomes : RetryAttempt(outcome)
    \/ RetryExhausted

SpecRetry == InitRetry /\ [][NextRetry]_vars /\ WF_vars(NextRetry)

\* --- SpecChunk: one _chunk_document call on a text of up to MaxWords words
\* by a store built with chunk_size in 1..MaxChunkSize and chunk_overlap in
\* 0..MaxChunkSize; the loop runs on its own, so it is weakly fair
InitChunk ==
    /\ FmtRest /\ fobj = NoValue /\ MrgIdle /\ ContIdle /\ IniIdle /\ RtIdle
    /\ ck_words \in 0..MaxWords
    /\ ck_size \in 1..MaxChunkSize
    /\ ck_overlap \in 0..MaxChunkSize
    /\ ck_i = 0
    /\ ck_chunks = <<>>
    /\ ck_done = FALSE
    /\ ck_tick = FALSE

NextChunk == ChunkStep \/ ChunkReturn

SpecChunk == InitChunk /\ [][NextChunk]_vars /\ WF_vars(NextChunk)

InitFormat == FmtRest /\ MrgIdle /\ AuxIdle /\ fobj \in FmtObjects

NextFormat == FmtFormat \/ FmtExtract

SpecFormat == InitFormat /\ [][NextFormat]_vars

InitExtract == FmtRest /\ MrgIdle /\ AuxIdle /\ fobj = NoValue

NextExtract ==
    \/ \E piece \in TextPieces : TextAppend(piece)
    \/ FmtExtract

SpecExtract == InitExtract /\ [][NextExtract]_vars

InitEmbedded == FmtRest /\ MrgIdle /\ AuxIdle /\ fobj \in EmbObjects

NextEmbedded ==
    \/ \E pre \in Prose, post \in Prose : EmbWrap(pre, post)
    \/ FmtExtract

SpecEmbedded == InitEmbedded /\ [][NextEmbedded]_vars

\* --- SpecMerge
InitMerge ==
    /\ FmtRest
    /\ AuxIdle
    /\ fobj = NoValue
    /\ mbase \in MergeBases
    /\ mdelta \in MergeDeltas
    /\ mout = NotMerged
    /\ mout2 = NotMerged

NextMerge == MrgMerge \/ MrgAgain

SpecMerge == InitMerge /\ [][NextMerge]_vars

\* --- SpecContinue
InitContinue ==
    /\ FmtRest
    /\ fobj = NoValue
    /\ MrgIdle
    /\ AuxIdle

NextContinue ==
    \E r \in Requests :
        \/ ResumeClaim(r)
        \/ ContinueGuard(r)
        \/ \E outcome \in ContinueOutcomes : ContinueEnd(r, outcome)

SpecContinue == InitContinue /\ [][NextContinue]_vars

\* =====================================================================
\* properties
\* =====================================================================

\* C1: in run_collaboration, whenever the round-1 reviewer result has at least
\* one Blocking objection and approval false, the call has returned a result
\* with paused_for_user = true and a resume_state, over the ledger
\* [supervisor, curator, interpreter, reviewer]; from that state the only step
\* is the start of a resume, which finds the ledger as the reviewer left it.
C1_PauseAfterRound1 ==
    /\ [](( /\ loc[1].call = "run"
            /\ loc[1].review_result.kind = "review"
            /\ sel[1].round_number = 1
            /\ \E i \in 1..Len(loc[1].review_result.objections) :
                   loc[1].review_result.objections[i].status = "Blocking"
            /\ ~loc[1].review_result.approval )
          => ( /\ pc[1] = "returned"
               /\ result[1].call = "run"
               /\ result[1].paused_for_user
               /\ result[1].resume_state.present
               /\ Roles(result[1].turns) =
                      <<"supervisor", "curator", "interpreter", "reviewer">>
               /\ heap[1].turns = result[1].turns ))
    /\ [][ (pc[1] = "returned" /\ result[1].call = "run" /\ result[1].paused_for_user)
           => ( /\ pc'[1] = "r_curator"
                /\ loc'[1].call = "resume"
                /\ heap'[1].turns = result[1].turns ) ]_vars

C1_Witness ==
    /\ pc[1] = "returned"
    /\ result[1].call = "run"
    /\ result[1].paused_for_user
    /\ Len(loc[1].review_result.objections) = 2

\* C2: the outcome of the final-outcome rule depends on the extracted data
\* alone: approval and no Blocking objection give the interpreter's position, a
\* Blocking objection gives "Pending Investigation" whatever the approval and
\* the position, no approval and no Blocking objection give "Pending Review".
C2_FinalOutcomeRule ==
    cout # None =>
        LET blocking == \E i \in 1..Len(cin.objections) : IsBlocking(cin.objections[i])
        IN  /\ (cin.approval /\ ~blocking) => cout = cin.position
            /\ blocking => cout = "Pending Investigation"
            /\ (~cin.approval /\ ~blocking) => cout = "Pending Review"

C2_Witness ==
    /\ cout = "Pending Investigation"
    /\ cin.approval
    /\ cin.position = "Pay"

\* C3: from a fresh or reset strategy the k-th next() call returns curator,
\* interpreter, reviewer in rotation, and the round read after it is the number
\* of the group of three the call belongs to.
C3_RoundRobin ==
    \A k \in 1..Len(emitted) :
        /\ emitted[k] = <<"curator", "interpreter", "reviewer">>[((k - 1) % 3) + 1]
        /\ rounds_seen[k] = ((k - 1) \div 3) + 1

\* C4: a failure raised inside run_collaboration is not propagated: the result
\* is the error decision, outcome "Deny", approval false, and exactly one
\* objection, of type "Processing Error" and status "Blocking", carrying the
\* failure message.
C4_RunNeverPropagates ==
    (result[1].call = "run" /\ result[1].exc # NoExc) =>
        /\ result[1].kind = "error_decision"
        /\ result[1].outcome = "Deny"
        /\ ~result[1].approval
        /\ result[1].objections =
               <<Objection("Processing Error", "Blocking", result[1].exc)>>

C4_Witness ==
    /\ pc[1] = "returned"
    /\ result[1].call = "run"
    /\ result[1].exc = "ClaimsProcessingError"
    /\ Len(heap[1].turns) = 3

\* C5: a backend failure raised by a role during a resume is not propagated to
\* the caller of continue_reasoner: the caller gets a Deny decision with one
\* Blocking "Processing Error" objection.
C5_ResumeNeverPropagates ==
    (result[1].call = "resume" /\ result[1].exc # NoExc) =>
        /\ result[1].kind # "raised"
        /\ result[1].outcome = "Deny"
        /\ result[1].objections =
               <<Objection("Processing Error", "Blocking", result[1].exc)>>

\* C6: the decision a resume returns is compiled from the ledger as it is after
\* the reviewer turn; the turns the resume appended to the rehydrated ledger
\* are, supervisor turns left out, a curator, an interpreter and a reviewer
\* turn, and the last turn of the result is that reviewer turn.
C6_ResumeEndsWithReviewer ==
    (result[1].call = "resume" /\ result[1].kind = "decision") =>
        LET turns    == result[1].turns
            n        == Len(turns)
            appended == SubSeq(turns, loc[1].base_len + 1, n)
        IN  /\ n > loc[1].base_len
            /\ SelectSeq(Roles(appended), LAMBDA r : r # "supervisor") =
                   <<"curator", "interpreter", "reviewer">>
            /\ turns[n].role = "reviewer"
            /\ turns[n].by = 1
            /\ turns = heap[1].turns

C6_Witness ==
    /\ result[1].call = "resume"
    /\ result[1].kind = "decision"
    /\ ~loc[1].has_support
    /\ Len(result[1].turns) = loc[1].base_len + 4

\* C7: at every instant the ledger's curator/interpreter/reviewer turns, in
\* order, are a prefix of the roles next() emits from the initial state.
C7_LedgerFollowsSelection ==
    LET agent_roles == SelectSeq(Roles(heap[1].turns), LAMBDA r : r # "supervisor")
    IN  agent_roles = SelTrace(SelInitial, Len(agent_roles))

\* C8: concurrent runs share no mutable state: every turn of a run's ledger was
\* appended by that run, and a returned decision carries that run's case_id and
\* that run's turns only.
C8_RunsIsolated ==
    \A t \in Threads :
        /\ \A i \in 1..Len(heap[t].turns) : heap[t].turns[i].by = t
        /\ result[t].kind = "decision" =>
              /\ result[t].case_id = job[t].case_id
              /\ \A i \in 1..Len(result[t].turns) : result[t].turns[i].by = t

\* C9: with max_rounds = 3 the should_terminate call made for the fourth
\* reviewer turn returns true, whatever the texts.
C9_FourthReviewerTerminates ==
    ( /\ term_h.max_rounds = DefaultMaxRounds
      /\ rev_calls = 4
      /\ last_call.role = "reviewer" )
    => last_call.result

C9_Witness ==
    /\ term_h.max_rounds = DefaultMaxRounds
    /\ rev_calls = 4
    /\ last_call.role = "reviewer"
    /\ \A i \in 1..Len(texts_h) : texts_h[i] = {}

\* C10: should_terminate returns true when the last speaker is the reviewer and
\* the latest text contains an approval phrase in any letter case; the same
\* phrase in a curator or interpreter turn does not terminate when the round
\* cap is not exceeded and the last three texts hold no error phrase.
C10_ReviewerApprovalTerminates ==
    last_call # NoCall =>
        LET latest   == texts_h[Len(texts_h)]
            approves == \E p \in latest : Lower(p) \in ApprovalIndicators
        IN  /\ (last_call.role = "reviewer" /\ approves) => last_call.result
            /\ ( /\ last_call.role \in {"curator", "interpreter"}
                 /\ approves
                 /\ term_h.current_round <= term_h.max_rounds
                 /\ \A i \in 1..Len(texts_h) :
                        i > Len(texts_h) - 3 => "Critical Error" \notin texts_h[i] )
               => ~last_call.result

C10_Witness ==
    /\ last_call.role = "reviewer"
    /\ last_call.result
    /\ "I APPROVE" \in texts_h[Len(texts_h)]
    /\ term_h.current_round <= term_h.max_rounds

\* C11: should_terminate returns true whenever a fatal-error phrase occurs, in
\* any letter case, in one of the last three texts (in any text when there are
\* fewer), whoever spoke last; when the cap is not exceeded and the approval
\* rule does not apply, a fatal-error phrase only in older texts does not
\* terminate.
C11_FatalPhraseInLastThree ==
    last_call # NoCall =>
        LET n        == Len(texts_h)
            fatal(i) == \E p \in texts_h[i] : Lower(p) \in ErrorIndicators
            approves == \E p \in texts_h[n] : Lower(p) \in ApprovalIndicators
        IN  /\ (\E i \in 1..n : i > n - 3 /\ fatal(i)) => last_call.result
            /\ ( /\ \A i \in 1..n : i > n - 3 => ~fatal(i)
                 /\ \E i \in 1..n : i <= n - 3 /\ fatal(i)
                 /\ term_h.current_round <= term_h.max_rounds
                 /\ ~(last_call.role = "reviewer" /\ approves) )
               => ~last_call.result

C11_Witness ==
    /\ last_call.role = "interpreter"
    /\ ~last_call.result
    /\ Len(texts_h) = 4
    /\ texts_h[1] = {"Critical Error"}

\* C12: from_export(L.export_to_dict()) has L's case_id, L's turns (role,
\* content, timestamp, metadata, in order) and L's messages, and compiling a
\* decision from it gives the decision compiled from L.
C12_ExportRoundTrip ==
    restored.exists =>
        /\ restored.case_id = led.case_id
        /\ restored.turns = led.turns
        /\ restored.messages = led.messages
        /\ CompileDecision(restored) = CompileDecision(led)

C12_Witness ==
    /\ restored.exists
    /\ Len(led.turns) = 2
    /\ led.turns[1].timestamp.micro # 0
    /\ led.messages[2].timestamp.micro = 0
    /\ led.turns[2].role = "reviewer"

\* C13: extract_json_from_response(format_json_response(O)) is O, whatever
\* characters (braces, quotes, backslashes, newlines, the delimiter texts,
\* fences) occur in O's keys and string values.
C13_FormatExtractRoundTrip ==
    (fobj.t = "obj" /\ fres # NotRun) =>
        /\ fres.kind = "found"
        /\ fres.val = fobj

C13_Witness ==
    /\ fres.kind = "found"
    /\ fres.by = "embedded"
    /\ fobj.members[1].value = JStr(<<"q", "E">>)

\* C14: extract_json_from_response returns what the first of the delimited,
\* fenced, whole-text and embedded methods that finds a value returns, returns
\* None when none of them finds one, and raises for no input text.
C14_OrderedWithoutRaising ==
    fres # NotRun =>
        LET text    == Strip(ftext)
            methods == <<ExtractDelimited(text), ExtractMarkdown(text),
                         ExtractRaw(text), ExtractEmbedded(text)>>
            found   == {k \in 1..4 : methods[k].kind = "found"}
        IN  /\ fres.kind \in {"found", "none"}
            /\ found = {} => fres.kind = "none"
            /\ found # {} =>
                 fres = methods[CHOOSE k \in found : \A m \in found : k <= m]

\* C15: from a text made of prose, one valid JSON object and prose again, the
\* embedded-object scan returns exactly that object.
C15_EmbeddedObjectRecovered ==
    (fobj.t = "obj" /\ femb # NotRun) =>
        /\ femb.kind = "found"
        /\ femb.val = fobj

\* C16: for every non-empty base evidence object, merging an empty delta ({}
\* or None) returns an object equal to base: no key added, removed or changed.
C16_EmptyDeltaIsIdentity ==
    (Merged(mout) /\ Truthy(mbase) /\ ~Truthy(mdelta)) => mout = mbase

\* expense.line_items / an expense scalar of an evidence object
LineItemsOf(ev) == Get(Get(ev, "expense", EmptyDict), "line_items", <<>>)
ExpenseScalarOf(ev, key) == Get(Get(ev, "expense", EmptyDict), key, "(absent)")

\* C17: when the same non-empty delta d is merged twice in sequence, the
\* expense line_items grow by the number of d's line items on each merge, and
\* the expense vendor and currency after the second merge are those after the
\* first merge.
C17_LineItemsAccumulateScalarsStay ==
    (Merged(mout2) /\ Truthy(mdelta)) =>
        LET n == Len(LineItemsOf(mdelta))
        IN  /\ Len(LineItemsOf(mout)) = Len(LineItemsOf(mbase)) + n
            /\ Len(LineItemsOf(mout2)) = Len(LineItemsOf(mout)) + n
            /\ ExpenseScalarOf(mout2, "vendor") = ExpenseScalarOf(mout, "vendor")
            /\ ExpenseScalarOf(mout2, "currency") = ExpenseScalarOf(mout, "currency")

C17_Witness ==
    /\ Merged(mout2)
    /\ Len(LineItemsOf(mdelta)) = 2
    /\ Len(LineItemsOf(mbase)) = 1
    /\ Len(LineItemsOf(mout2)) = 5
    /\ ExpenseScalarOf(mbase, "vendor") = "Acme"
    /\ ExpenseScalarOf(mdelta, "vendor") = "Bolt"
    /\ ExpenseScalarOf(mout2, "vendor") = "Acme"

\* the image names of an evidence list, and the number of observations the
\* entries named name carry
ImageNames(list) == {Get(list[i], "image_name", "") : i \in 1..Len(list)}
ObservationCounts(list, name) ==
    {Len(Get(list[i], "observations", <<>>)) :
        i \in {k \in 1..Len(list) : Get(list[k], "image_name", "") = name}}

\* C18: after a paused run is resumed with one supplemental photo whose image
\* name equals that of an existing evidence entry, the evidence entry for that
\* image in the result returned by the resume has as many observations as the
\* earlier entry and the supplemental analysis together.
C18_ResumeResultSumsObservations ==
    \A name \in {"a.jpg", "b.jpg"} :
        ( /\ pc[1] = "returned"
          /\ result[1].call = "resume"
          /\ result[1].kind = "decision"
          /\ loc[1].has_support
          /\ name \in ImageNames(Get(loc[1].prev_evidence.data, "evidence", <<>>))
          /\ name \in ImageNames(Get(loc[1].new_evidence.data, "evidence", <<>>)) )
        => \E earlier \in ObservationCounts(loc[1].prev_evidence.data["evidence"], name),
              supplemental \in ObservationCounts(loc[1].new_evidence.data["evidence"], name) :
                ObservationCounts(result[1].evidence, name) = {earlier + supplemental}

\* C19: when the interpreter's position is Deny and the reviewer's reply
\* carries approval=false with zero objections, the decision returned by the
\* run has outcome 'Pending Review'.
C19_DenyUnapprovedNoObjections ==
    ( /\ pc[1] = "returned"
      /\ result[1].call = "run"
      /\ result[1].kind = "decision"
      /\ loc[1].decision_result.position = "Deny"
      /\ loc[1].reviewer_reply.parsed
      /\ loc[1].reviewer_reply.approval = "false"
      /\ loc[1].reviewer_reply.statuses = <<>> )
    => result[1].outcome = "Pending Review"

\* C20: when the ledger snapshot inside a ResumeState is corrupt, the resume
\* does not fail: it continues with a fresh empty ledger whose case_id is the
\* ResumeState's case ID, performs the curator, interpreter and reviewer
\* turns, and returns a compiled decision carrying that same case ID.
C20_CorruptSnapshotFallsBack ==
    (loc[1].call = "resume" /\ loc[1].snapshot \in CorruptShapes) =>
        /\ loc[1].base_len = 0
        /\ heap[1].case_id = loc[1].prev_case_id
        /\ pc[1] # "raised"
        /\ pc[1] = "returned" =>
             /\ result[1].kind = "decision"
             /\ result[1].case_id = loc[1].prev_case_id
             /\ \E k \in 1..(Len(result[1].turns) - 2) :
                    /\ result[1].turns[k].role = "curator"
                    /\ result[1].turns[k + 1].role = "interpreter"
                    /\ result[1].turns[k + 2].role = "reviewer"

\* C21: if the reviewer turn performed during a resume again yields at least
\* one Blocking objection with approval false, the resume result is marked
\* paused_for_user and carries a new resume_state, which the job record keeps
\* for a further resume.
C21_ResumePausesAgain ==
    ( /\ pc[1] = "returned"
      /\ result[1].call = "resume"
      /\ result[1].kind = "decision"
      /\ BlockingObjections(loc[1].review_result.objections) # {}
      /\ ~loc[1].review_result.approval )
    => ( /\ result[1].paused_for_user
         /\ result[1].resume_state.present
         /\ job[1].resume_state.present )

\* C22: a paused job's ResumeState is resumed at most once: of the accepted
\* continue requests, at most one runs continue_reasoner from it.
C22_ResumedAtMostOnce ==
    \A r1 \in Requests, r2 \in Requests :
        (cj_from[r1] # 0 /\ cj_from[r1] = cj_from[r2]) => r1 = r2

\* C23: the object decision compilation extracts from a formatted role turn
\* equals the structured result O the turn was formatted from, whatever
\* characters the string values of O contain
C23_TurnRoundTrip ==
    (fparts = 1 /\ fres # NotRun) => (fres.kind = "found" /\ fres.val = fobj)

C25_CapPermitsMaxRounds ==
    ( /\ last_call.role = "reviewer"
      /\ term_h.max_rounds >= 1
      /\ rev_calls >= 1
      /\ rev_calls <= term_h.max_rounds
      /\ \A i \in 1..Len(texts_h) : texts_h[i] = {} )
    => ~last_call.result

\* C26: in every non-error result of a run or a resume, rounds_completed
\* equals the number of curator turns in the ledger, whether or not supervisor
\* clarification turns were appended during the resume
C26_RoundsCompletedCountsCuratorTurns ==
    (pc[1] = "returned" /\ result[1].kind = "decision")
    => result[1].rounds_completed = Len(TurnsByRole(result[1].turns, "curator"))

\* C27: a fatal-error phrase that stands only in the supervisor's initial
\* prompt (the claimant's narrative) does not end the debate: with
\* max_rounds >= 1, no failed role invocation and no fatal phrase in a
\* role-authored turn, a finished run has an interpreter and a reviewer turn
C27_NarrativePhraseDoesNotEndDebate ==
    ( /\ pc[1] = "returned"
      /\ result[1].call = "run"
      /\ result[1].kind = "decision"
      /\ max_rounds >= 1
      /\ \A i \in 2..Len(result[1].turns) :
             ~ContainsAny(result[1].turns[i].toks, ErrorIndicators) )
    => ( /\ TurnsByRole(result[1].turns, "interpreter") # <<>>
         /\ TurnsByRole(result[1].turns, "reviewer") # <<>> )

\* C28: whenever _initialize_system returns without raising, the module-level
\* supervisor is not None, also when two threads make their first calls
\* together and after an earlier call that failed part-way
C28_ReturnMeansSupervisor ==
    \A t \in Threads : ini_pc[t] = "returned" => ini_seen[t]

\* C29: an invoke_nova_pro call makes at most max_retries backend attempts; an
\* attempt is followed by another only when it failed with a retryable error
\* code and attempts remain; a call that returned did so with the parsed
\* response of its last attempt, a call that raised did so with
\* BedrockAPIError; and every call ends
C29_AttemptsWithinBudget ==
    /\ Len(rt_log) <= rt_max
    /\ \A i \in 1..(Len(rt_log) - 1) :
           /\ rt_log[i].kind = "client_error"
           /\ rt_log[i].code \in {"ThrottlingException", "TooManyRequestsException",
                                  "ServiceUnavailableException",
                                  "InternalServerException", "RequestTimeout",
                                  "RequestTimeoutException"}
           /\ i < rt_max
    /\ rt_end.kind = "returned" =>
           /\ rt_log # <<>>
           /\ rt_log[Len(rt_log)].kind = "response"
           /\ rt_end.val.content = rt_log[Len(rt_log)].content
    /\ rt_end.kind = "raised" =>
           /\ rt_end.exc = "BedrockAPIError"
           /\ rt_log # <<>> => rt_log[Len(rt_log)].kind # "response"

ChunksCoverAndOverlap ==
    ck_done =>
        /\ \A w \in 0..(ck_words - 1) :
               \E k \in 1..Len(ck_chunks) : ck_chunks[k].lo <= w /\ w < ck_chunks[k].hi
        /\ \A k \in 1..(Len(ck_chunks) - 1) :
               ck_chunks[k].hi - ck_chunks[k].lo = ck_size =>
                   /\ ck_chunks[k + 1].lo = ck_chunks[k].hi - ck_overlap
                   /\ ck_chunks[k + 1].hi >= ck_chunks[k].hi

\* C30: for every text and every configured chunk_size and chunk_overlap,
\* _chunk_document terminates, every word lies in at least one chunk and
\* consecutive chunks share their chunk_overlap-word overlap
C30_ChunkingTerminatesAndCovers == []ChunksCoverAndOverlap /\ <>ck_done

====
